---- MODULE Spec2Model ----
(***************************************************************************)
(* The BLE relay control plane of petkitaio's PetKitClient                 *)
(* (src/petkitaio/petkit_client.py): the water fountain refresh            *)
(* (_handle_water_fountain), the water fountain command                    *)
(* (control_water_fountain) and the connect / poll retry helpers they      *)
(* share.  A task runs one operation; every step of an operation runs from *)
(* one suspension point (an awaited network call or sleep) to the next.    *)
(***************************************************************************)
EXTENDS Integers, Sequences, FiniteSets, TLC

(***************************************************************************)
(* Bounds of the model.                                                    *)
(***************************************************************************)
MaxTime == 500
MaxRelays == 2

(***************************************************************************)
(* Program constants.                                                      *)
(***************************************************************************)
PollCooldown == 420
ConnectAttemptLimit == 4
PollAttemptLimit == 4
use_ble_relay == TRUE

Devices == {1, 2}
Tasks == {1, 2}

\* The times at which the steps of the model happen: the start, one cool-down
\* later, and the horizon.
TimePoints == {0, PollCooldown, MaxTime}

\* _response raises BluetoothError for the vendor's code 3003; ServerError
\* stands for every other exception a network call raises (AuthError,
\* ServerError, PetKitError, a timeout): none of them is caught by name.
NetErrors == {"BluetoothError", "ServerError"}

\* The commands control_water_fountain is given in this model.
Commands == {"PAUSE", "NORMAL", "LIGHT_MEDIUM", "RESET_FILTER"}
W5_LIGHT_BRIGHTNESS == {"LIGHT_LOW", "LIGHT_MEDIUM", "LIGHT_HIGH"}

\* The snapshots of a W5Fountain a command is called with: a fountain whose
\* group has no relay; one that is paused with its light off; one in normal
\* mode with its light on; one in smart mode with its light off.
Profiles ==
  { [group_relay |-> FALSE, powerStatus |-> 1, mode |-> 1, lampRingSwitch |-> 1],
    [group_relay |-> TRUE, powerStatus |-> 0, mode |-> 1, lampRingSwitch |-> 0],
    [group_relay |-> TRUE, powerStatus |-> 1, mode |-> 1, lampRingSwitch |-> 1],
    [group_relay |-> TRUE, powerStatus |-> 1, mode |-> 2, lampRingSwitch |-> 0] }

Fountains ==
  { [id |-> d, group_relay |-> p.group_relay, powerStatus |-> p.powerStatus,
     mode |-> p.mode, lampRingSwitch |-> p.lampRingSwitch] :
      d \in Devices, p \in Profiles }

RECURSIVE SeqsUpTo(_)
SeqsUpTo(n) ==
  IF n = 0 THEN {<<>>}
  ELSE LET S == SeqsUpTo(n - 1)
       IN S \cup {Append(s, p) : s \in {x \in S : Len(x) = n - 1}, p \in {0, 1}}

\* The relay candidate lists the cloud may answer with: the pim of each.
RelayLists == SeqsUpTo(MaxRelays)

VARIABLES
  ble_sequence,             \* self.ble_sequence
  last_ble_poll,            \* self.last_ble_poll: a dict, device id -> time
  missing_relay_log_count,  \* self.missing_relay_log_count: a dict, device id -> 0 or 1
  relay_reported,           \* history: device id -> has_relay of its latest refresh
  now,                      \* datetime.now(), in seconds
  op,                       \* task -> the water fountain operation it runs
  manually_paused,          \* self.manually_paused: a dict, litter box id -> bool
  manual_pause_end,         \* self.manual_pause_end: a dict, id -> None or a time
  lb_op,                    \* the litter box operation the caller runs
  codec                     \* the latest call of the byte codec: arguments and results

fountain == <<ble_sequence, last_ble_poll, missing_relay_log_count, relay_reported, op>>
litter == <<manually_paused, manual_pause_end, lb_op>>
vars == <<fountain, now, litter, codec>>

\* A Python dict is a function on the keys it holds.
EmptyDict == [k \in {} |-> 0]
Put(dict, k, v) == [x \in DOMAIN dict \cup {k} |-> IF x = k THEN v ELSE dict[x]]

IdleOp ==
  [kind |-> "none", dev |-> 0, status |-> "idle", pc |-> "idle", err |-> "none",
   attempt |-> 0, calls |-> <<>>, warned |-> {}, has_relay |-> FALSE,
   relays |-> <<>>, conn_success |-> "unset", poll_success |-> "unset",
   device_details |-> 0, fountain_data |-> 0, cmd |-> "none", frame_seq |-> 0,
   pending_exc |-> "none", seq_at_start |-> 0, powerStatus |-> 0,
   lampRingSwitch |-> 0]

\* Optional[datetime]: None, or a time.
None == {}
Some(time) == {time}

\* The litter box operation of a caller that has not run one.
IdleLitterOp ==
  [kind |-> "none", id |-> 0, type |-> "none", status |-> "idle", pc |-> "idle",
   err |-> "none", cmd |-> "none", calls |-> <<>>, record |-> <<>>,
   paused_before |-> EmptyDict, end_before |-> EmptyDict,
   manually_paused |-> FALSE, manual_pause_end |-> None, began |-> 0, ended |-> 0]

\* The byte codec before its first call.
IdleCodec ==
  [call |-> "none", command |-> "none", frame_command |-> "none",
   device |-> [powerStatus |-> 0, mode |-> 0, smartWorkingTime |-> 0,
               smartSleepTime |-> 0, lampRingSwitch |-> 0, lampRingBrightness |-> 0,
               lampRingLightUpTime |-> 0, lampRingGoOutTime |-> 0,
               noDisturbingSwitch |-> 0, noDisturbingStartTime |-> 0,
               noDisturbingEndTime |-> 0],
   returned |-> FALSE, sequence |-> 0, cmd |-> "none", opcode |-> 0, input |-> 0,
   data_list |-> <<>>, byte_list |-> <<>>, byte_array |-> <<>>, data |-> ""]

Init ==
  /\ ble_sequence = 0
  /\ last_ble_poll = EmptyDict
  /\ missing_relay_log_count = EmptyDict
  /\ relay_reported = EmptyDict
  /\ now = 0
  /\ op = [t \in Tasks |-> IdleOp]
  /\ manually_paused = EmptyDict
  /\ manual_pause_end = EmptyDict
  /\ lb_op = IdleLitterOp
  /\ codec = IdleCodec

----
(***************************************************************************)
(* Network calls.  A call is logged when it is issued, with the sequence   *)
(* byte its frame carries (control frames only), and completed by the      *)
(* response: out is "returned" with the value the step reads (state of a   *)
(* connect, result of a poll), or the exception the call raised.           *)
(***************************************************************************)
Issue(o, ep, seq) ==
  [o EXCEPT !.calls = Append(@, [ep |-> ep, out |-> "pending", val |-> 0, seq |-> seq])]

Answer(o, out, val) ==
  [o EXCEPT !.calls[Len(o.calls)].out = out, !.calls[Len(o.calls)].val = val]

Return(o, data) ==
  [o EXCEPT !.status = "returned", !.pc = "done", !.fountain_data = data]

Raise(o, e) == [o EXCEPT !.status = "raised", !.pc = "done", !.err = e]

Running(t, pc) == op[t].status = "running" /\ op[t].pc = pc

\* What a call of the endpoint may answer: a response carrying one of vals,
\* or an exception.
Outcomes(vals) ==
  {[out |-> "returned", val |-> v] : v \in vals}
    \cup {[out |-> e, val |-> 0] : e \in NetErrors}

----
(***************************************************************************)
(* start_ble_connection and poll_ble_connection.  Each is recursive: a     *)
(* failed attempt increments the attempt number, sleeps 3 s and awaits the *)
(* next frame, whose value it does not return; the next frame gives up     *)
(* when its attempt number exceeds 4 and posts the call otherwise.  So the *)
(* caller's frame (attempt 1) returns True only when the first response    *)
(* succeeded and None in every other case.  The operators below give what  *)
(* the response to attempt number `attempt` leads to: "retry" (the         *)
(* increment, the sleep, then the next frame), or the value the caller     *)
(* receives.                                                               *)
(***************************************************************************)
\* Off by one: the frame of a fifth attempt still posts its call.
connect_attempts_exhausted_one_more(ble_connect_attempt) ==
  ble_connect_attempt > ConnectAttemptLimit + 1

\* Line 729: `if ble_connect_attempt > 4`, at the entry of each frame.
connect_attempts_exhausted(ble_connect_attempt) ==
  ble_connect_attempt > ConnectAttemptLimit

\* Off by one in the poll step: a fifth poll call follows four failures.
poll_attempts_exhausted_one_more(ble_poll_attempt) ==
  ble_poll_attempt > PollAttemptLimit + 1

\* Line 755: `if ble_poll_attempt > 4`, at the entry of each frame.
poll_attempts_exhausted(ble_poll_attempt) ==
  ble_poll_attempt > PollAttemptLimit

\* Lines 742-749: what the response to connect attempt number `attempt` leads to.
start_ble_connection(attempt, state) ==
  IF state # 1 THEN "retry"
  ELSE IF attempt = 1 THEN "True" ELSE "None"

\* Lines 768-775: what the response to poll attempt number `attempt` leads to.
poll_ble_connection(attempt, result) ==
  IF result # 0 THEN "retry"
  ELSE IF attempt = 1 THEN "True" ELSE "None"

\* Python truth of a returned value: `if conn_success:`.
Truthy(v) == v = "True"

\* The rate limit left out.
can_poll_always(d) == TRUE

\* The comparison turned around.
can_poll_inverted(d) ==
  IF d \notin DOMAIN last_ble_poll THEN TRUE
  ELSE now - last_ble_poll[d] < PollCooldown

\* `if (current_dt - self.last_ble_poll[id]).total_seconds() >= 420`
can_poll(d) ==
  IF d \notin DOMAIN last_ble_poll THEN TRUE
  ELSE now - last_ble_poll[d] >= PollCooldown

\* The loop over relay_devices['result']: stops at the first pim == 1.
RECURSIVE main_online_from(_, _)
main_online_from(relays, i) ==
  IF i > Len(relays) THEN FALSE
  ELSE IF relays[i] = 1 THEN TRUE
  ELSE main_online_from(relays, i + 1)

\* Only the first candidate looked at.
main_online_first_only(relays) == relays # <<>> /\ relays[1] = 1

main_online(relays) == main_online_from(relays, 1)

\* The test for an empty candidate list left out.
relay_decision_unchecked(relays) ==
  IF relays = <<>> \/ main_online(relays) THEN "Available" ELSE "MainOffline"

\* Lines 343-354, 431 and 440: what the refresh does with the candidate list.
relay_decision(relays) ==
  IF relays # <<>>
  THEN IF main_online(relays) THEN "Available" ELSE "MainOffline"
  ELSE "NoRelayReported"

\* The reset before the handshake forgotten.
handshake_sequence_no_reset(sequence) == sequence + 1

\* Lines 387-389: the counter before the first handshake frame.
handshake_sequence(sequence) == (IF sequence # 0 THEN 0 ELSE sequence) + 1

\* The reset after the command frame forgotten.
sequence_after_command_kept == ble_sequence

\* Line 1002: the counter after the command frame was sent.
sequence_after_command == 0

\* `bytearray([x % 256 for x in byte_list])`: the sequence byte of a frame.
sequence_byte(sequence) == sequence % 256

\* The except clause left out.
Swallowed_nothing(e) == FALSE

\* `except BluetoothError: pass` around initial_ble_commands.
Swallowed(e) == e = "BluetoothError"

\* The wrong exception class for a failed step.
StepFailedError_generic == "PetKitError"

\* The exception control_water_fountain raises when connect or poll failed.
StepFailedError == "BluetoothError"

----
(***************************************************************************)
(* The clock.                                                              *)
(***************************************************************************)
Tick ==
  /\ \E later \in TimePoints : later > now /\ now' = later
  /\ UNCHANGED <<ble_sequence, last_ble_poll, missing_relay_log_count, relay_reported, op, litter, codec>>

----
(***************************************************************************)
(* _handle_water_fountain: the refresh of one water fountain.              *)
(***************************************************************************)

\* The warning repeated at every refresh without a relay.
warn_no_relay_always(count) == use_ble_relay

\* Line 462: whether the 'no relay device' warning is logged.
warn_no_relay(count) == use_ble_relay /\ count = 0

\* Lines 298-338 and 449-479: up to the first network call.
handle_water_fountain(t, d, has_relay) ==
  /\ op[t].status # "running"
  /\ LET o == [IdleOp EXCEPT !.kind = "refresh", !.dev = d, !.status = "running",
                             !.has_relay = has_relay, !.seq_at_start = ble_sequence]
         count == IF d \in DOMAIN missing_relay_log_count
                  THEN missing_relay_log_count[d] ELSE 0
     IN IF has_relay /\ use_ble_relay
        THEN /\ missing_relay_log_count' = Put(missing_relay_log_count, d, 0)
             /\ IF can_poll(d)
                THEN op' = [op EXCEPT ![t] =
                              Issue([o EXCEPT !.pc = "relays"], "ble_devices", 0)]
                ELSE op' = [op EXCEPT ![t] = Issue([o EXCEPT !.pc = "fetch"], "w5", 0)]
        ELSE /\ missing_relay_log_count' =
                  Put(missing_relay_log_count, d,
                      IF warn_no_relay(count) THEN 1 ELSE count)
             /\ op' = [op EXCEPT ![t] =
                         Issue([o EXCEPT !.pc = "fetch",
                                         !.warned = IF warn_no_relay(count)
                                                    THEN {"no_relay"} ELSE {}],
                               "w5", 0)]
  /\ relay_reported' = Put(relay_reported, d, has_relay)
  /\ UNCHANGED <<ble_sequence, last_ble_poll, now, litter, codec>>

\* Lines 338-354 and 431-448: the relay candidates arrive.
handle_water_fountain_relays(t) ==
  /\ Running(t, "relays")
  /\ \E r \in Outcomes({0}), relays \in RelayLists :
       LET o == Answer(op[t], r.out, r.val) IN
       IF r.out # "returned" THEN op' = [op EXCEPT ![t] = Raise(o, r.out)]
       ELSE IF relay_decision(relays) = "Available"
       THEN op' = [op EXCEPT ![t] =
                     Issue([o EXCEPT !.relays = relays, !.pc = "details"], "w5", 0)]
       ELSE op' = [op EXCEPT ![t] =
                     Issue([o EXCEPT !.relays = relays, !.pc = "fetch",
                                     !.warned = IF relay_decision(relays) = "MainOffline"
                                                THEN {"main_offline"} ELSE {}],
                           "w5", 0)]
  /\ UNCHANGED <<ble_sequence, last_ble_poll, missing_relay_log_count, relay_reported, now, litter, codec>>

\* Lines 356-371: the device details arrive; the first connect call is issued.
handle_water_fountain_details(t) ==
  /\ Running(t, "details")
  /\ \E r \in Outcomes({0}) :
       LET o == Answer(op[t], r.out, r.val) IN
       IF r.out # "returned" THEN op' = [op EXCEPT ![t] = Raise(o, r.out)]
       ELSE op' = [op EXCEPT ![t] =
                     Issue([o EXCEPT !.device_details = Len(o.calls),
                                     !.pc = "connect", !.attempt = 1],
                           "connect", 0)]
  /\ UNCHANGED <<ble_sequence, last_ble_poll, missing_relay_log_count, relay_reported, now, litter, codec>>

\* Lines 440-460 and 478-491: the plain data fetch arrives and is returned.
handle_water_fountain_fetch(t) ==
  /\ Running(t, "fetch")
  /\ \E r \in Outcomes({0}) :
       LET o == Answer(op[t], r.out, r.val) IN
       IF r.out # "returned" THEN op' = [op EXCEPT ![t] = Raise(o, r.out)]
       ELSE op' = [op EXCEPT ![t] = Return(o, Len(o.calls))]
  /\ UNCHANGED <<ble_sequence, last_ble_poll, missing_relay_log_count, relay_reported, now, litter, codec>>

\* A failed connect step treated like a failed poll step: sleep, disconnect.
refresh_after_connect_disconnects(o, conn_success) ==
  IF Truthy(conn_success)
  THEN Issue([o EXCEPT !.conn_success = conn_success, !.pc = "poll", !.attempt = 1],
             "poll", 0)
  ELSE [o EXCEPT !.conn_success = conn_success, !.pc = "poll_failed",
                 !.warned = @ \cup {"connect_failed"}]

\* The poll step started whatever the connect step returned.
refresh_after_connect_unchecked(o, conn_success) ==
  Issue([o EXCEPT !.conn_success = conn_success, !.pc = "poll", !.attempt = 1],
        "poll", 0)

\* Lines 372-377 and 425-429: what _handle_water_fountain does with the value
\* start_ble_connection returned.
refresh_after_connect(o, conn_success) ==
  IF Truthy(conn_success)
  THEN Issue([o EXCEPT !.conn_success = conn_success, !.pc = "poll", !.attempt = 1],
             "poll", 0)
  ELSE Return([o EXCEPT !.conn_success = conn_success,
                        !.warned = @ \cup {"connect_failed"}],
              o.device_details)

\* The handshake started whatever the poll step returned.
refresh_after_poll_unchecked(o, poll_success) ==
  [o EXCEPT !.poll_success = poll_success, !.pc = "settle"]

\* Lines 378-384 and 413-418: what _handle_water_fountain does with the value
\* poll_ble_connection returned; either way it sleeps 2 s next.
refresh_after_poll(o, poll_success) ==
  IF Truthy(poll_success)
  THEN [o EXCEPT !.poll_success = poll_success, !.pc = "settle"]
  ELSE [o EXCEPT !.poll_success = poll_success, !.pc = "poll_failed",
                 !.warned = @ \cup {"poll_failed"}]

\* Lines 384-391 and 780-790: after the 2 s sleep the counter is set to 1 and
\* the first handshake frame is built with it and sent.
handle_water_fountain_settled(t) ==
  /\ Running(t, "settle")
  /\ ble_sequence' = handshake_sequence(ble_sequence)
  /\ op' = [op EXCEPT ![t] = Issue([@ EXCEPT !.pc = "frame1"], "control", sequence_byte(ble_sequence'))]
  /\ UNCHANGED <<last_ble_poll, missing_relay_log_count, relay_reported, now, litter, codec>>

\* The state not fetched again after the handshake: the disconnect follows at once.
refresh_finally_no_refetch(o, exc) ==
  Issue([o EXCEPT !.pc = "cancel", !.pending_exc = exc, !.fountain_data = o.device_details],
        "cancel", 0)

\* Lines 394-401: the finally block starts: the poll time is recorded and the
\* state is fetched again.  exc is the exception in flight, if any.
refresh_finally(o, exc) ==
  Issue([o EXCEPT !.pc = "refetch", !.pending_exc = exc], "w5", 0)

\* Lines 790-801: the response to the first handshake frame.
initial_ble_commands_first(t) ==
  /\ Running(t, "frame1")
  /\ \E r \in Outcomes({0}) :
       LET o == Answer(op[t], r.out, r.val) IN
       IF r.out = "returned"
       THEN /\ ble_sequence' = ble_sequence + 1
            /\ op' = [op EXCEPT ![t] =
                        Issue([o EXCEPT !.pc = "frame2"], "control", sequence_byte(ble_sequence'))]
            /\ UNCHANGED last_ble_poll
       ELSE /\ ble_sequence' = ble_sequence
            /\ op' = [op EXCEPT ![t] =
                        refresh_finally(o, IF Swallowed(r.out) THEN "none" ELSE r.out)]
            /\ last_ble_poll' = Put(last_ble_poll, o.dev, now)
  /\ UNCHANGED <<missing_relay_log_count, relay_reported, now, litter, codec>>

\* Lines 801-802 and 392-401: the response to the second handshake frame.
initial_ble_commands_second(t) ==
  /\ Running(t, "frame2")
  /\ \E r \in Outcomes({0}) :
       LET o == Answer(op[t], r.out, r.val) IN
       /\ ble_sequence' = IF r.out = "returned" THEN ble_sequence + 1 ELSE ble_sequence
       /\ op' = [op EXCEPT ![t] =
                   refresh_finally(o, IF r.out = "returned" \/ Swallowed(r.out)
                                      THEN "none" ELSE r.out)]
       /\ last_ble_poll' = Put(last_ble_poll, o.dev, now)
  /\ UNCHANGED <<missing_relay_log_count, relay_reported, now, litter, codec>>

\* Lines 401-407: the re-fetched state arrives; a 2 s sleep follows.
handle_water_fountain_refetch(t) ==
  /\ Running(t, "refetch")
  /\ \E r \in Outcomes({0}) :
       LET o == Answer(op[t], r.out, r.val) IN
       IF r.out # "returned" THEN op' = [op EXCEPT ![t] = Raise(o, r.out)]
       ELSE op' = [op EXCEPT ![t] =
                     [o EXCEPT !.fountain_data = Len(o.calls), !.pc = "settle2"]]
  /\ UNCHANGED <<ble_sequence, last_ble_poll, missing_relay_log_count, relay_reported, now, litter, codec>>

\* Lines 407-412 and 418-423: after the 2 s sleep the disconnect call is issued,
\* on the success path as well as after a failed poll step.
handle_water_fountain_disconnect(t) ==
  /\ op[t].status = "running" /\ op[t].pc \in {"settle2", "poll_failed"}
  /\ op' = [op EXCEPT ![t] =
              Issue([@ EXCEPT !.pc = IF @ = "settle2" THEN "cancel" ELSE "cancel_failed"],
                    "cancel", 0)]
  /\ UNCHANGED <<ble_sequence, last_ble_poll, missing_relay_log_count, relay_reported, now, litter, codec>>

\* Lines 412, 423-424 and 484-491: the disconnect call completes; an exception
\* the finally block held back is raised again, otherwise the state is returned.
handle_water_fountain_disconnected(t) ==
  /\ op[t].status = "running" /\ op[t].pc \in {"cancel", "cancel_failed"}
  /\ \E r \in Outcomes({0}) :
       LET o == Answer(op[t], r.out, r.val) IN
       IF r.out # "returned" THEN op' = [op EXCEPT ![t] = Raise(o, r.out)]
       ELSE IF o.pending_exc # "none" THEN op' = [op EXCEPT ![t] = Raise(o, o.pending_exc)]
       ELSE IF o.pc = "cancel" THEN op' = [op EXCEPT ![t] = Return(o, o.fountain_data)]
       ELSE op' = [op EXCEPT ![t] = Return(o, o.device_details)]
  /\ UNCHANGED <<ble_sequence, last_ble_poll, missing_relay_log_count, relay_reported, now, litter, codec>>

----
(***************************************************************************)
(* control_water_fountain: a command sent to one water fountain.           *)
(***************************************************************************)

\* The check of the light switch left out.
command_frame_light_unchecked(wf, command) ==
  IF command = "PAUSE"
  THEN IF wf.powerStatus = 0 THEN "refused"
       ELSE IF wf.mode = 1 THEN "NORMAL_TO_PAUSE" ELSE "SMART_TO_PAUSE"
  ELSE command

\* Lines 954-972: the command whose frame is built, or the refusal.
command_frame(wf, command) ==
  IF command = "PAUSE"
  THEN IF wf.powerStatus = 0 THEN "refused"
       ELSE IF wf.mode = 1 THEN "NORMAL_TO_PAUSE" ELSE "SMART_TO_PAUSE"
  ELSE IF command \in W5_LIGHT_BRIGHTNESS
  THEN IF wf.lampRingSwitch # 1 THEN "refused" ELSE command
  ELSE command

\* Lines 949-993: the checks, the frame (built with the counter as it is now)
\* and the first connect call.
control_water_fountain(t, wf, command) ==
  /\ op[t].status # "running"
  /\ LET o == [IdleOp EXCEPT !.kind = "command", !.dev = wf.id, !.status = "running",
                             !.has_relay = wf.group_relay, !.cmd = command,
                             !.seq_at_start = ble_sequence,
                             !.powerStatus = wf.powerStatus,
                             !.lampRingSwitch = wf.lampRingSwitch]
     IN IF ~wf.group_relay \/ command_frame(wf, command) = "refused"
        THEN op' = [op EXCEPT ![t] = Raise(o, "PetKitError")]
        ELSE op' = [op EXCEPT ![t] =
                      Issue([o EXCEPT !.frame_seq = sequence_byte(ble_sequence),
                                      !.pc = "connect", !.attempt = 1],
                            "connect", 0)]
  /\ UNCHANGED <<ble_sequence, last_ble_poll, missing_relay_log_count, relay_reported, now, litter, codec>>

\* Lines 994-995 and 1008-1009: what control_water_fountain does with the value
\* start_ble_connection returned.
command_after_connect(o, conn_success) ==
  IF Truthy(conn_success)
  THEN Issue([o EXCEPT !.conn_success = conn_success, !.pc = "poll", !.attempt = 1],
             "poll", 0)
  ELSE Raise([o EXCEPT !.conn_success = conn_success], StepFailedError)

\* The frame sent whatever the poll step returned.
command_after_poll_unchecked(o, poll_success) ==
  [o EXCEPT !.poll_success = poll_success, !.pc = "c_settle"]

\* Lines 996-998 and 1006-1007: what control_water_fountain does with the value
\* poll_ble_connection returned; on success it sleeps 4 s next.
command_after_poll(o, poll_success) ==
  IF Truthy(poll_success)
  THEN [o EXCEPT !.poll_success = poll_success, !.pc = "c_settle"]
  ELSE Raise([o EXCEPT !.poll_success = poll_success], StepFailedError)

\* Lines 998-1000: after the 4 s sleep the command frame is sent.
control_water_fountain_settled(t) ==
  /\ Running(t, "c_settle")
  /\ op' = [op EXCEPT ![t] = Issue([@ EXCEPT !.pc = "c_control"], "control", @.frame_seq)]
  /\ UNCHANGED <<ble_sequence, last_ble_poll, missing_relay_log_count, relay_reported, now, litter, codec>>

\* Lines 1000-1004: the frame was sent: the counter is reset; a 2 s sleep follows.
control_water_fountain_sent(t) ==
  /\ Running(t, "c_control")
  /\ \E r \in Outcomes({0}) :
       LET o == Answer(op[t], r.out, r.val) IN
       IF r.out # "returned"
       THEN /\ op' = [op EXCEPT ![t] = Raise(o, r.out)]
            /\ UNCHANGED ble_sequence
       ELSE /\ op' = [op EXCEPT ![t] = [o EXCEPT !.pc = "c_settle2"]]
            /\ ble_sequence' = sequence_after_command
  /\ UNCHANGED <<last_ble_poll, missing_relay_log_count, relay_reported, now, litter, codec>>

\* Lines 1004-1005: after the 2 s sleep the disconnect call is issued.
control_water_fountain_disconnect(t) ==
  /\ Running(t, "c_settle2")
  /\ op' = [op EXCEPT ![t] = Issue([@ EXCEPT !.pc = "c_cancel"], "cancel", 0)]
  /\ UNCHANGED <<ble_sequence, last_ble_poll, missing_relay_log_count, relay_reported, now, litter, codec>>

\* Line 1005: the disconnect call completes and the command returns.
control_water_fountain_disconnected(t) ==
  /\ Running(t, "c_cancel")
  /\ \E r \in Outcomes({0}) :
       LET o == Answer(op[t], r.out, r.val) IN
       IF r.out # "returned" THEN op' = [op EXCEPT ![t] = Raise(o, r.out)]
       ELSE op' = [op EXCEPT ![t] = Return(o, 0)]
  /\ UNCHANGED <<ble_sequence, last_ble_poll, missing_relay_log_count, relay_reported, now, litter, codec>>

----
(***************************************************************************)
(* The steps of start_ble_connection and poll_ble_connection, shared by    *)
(* the refresh and the command.                                            *)
(***************************************************************************)
ConnectStates == {0, 1}
PollResults == {0, 1}

\* Lines 736-749: the response to a connect call; a failed one is followed by
\* the 3 s sleep, whatever its attempt number.
start_ble_connection_response(t) ==
  /\ Running(t, "connect")
  /\ \E r \in Outcomes(ConnectStates) :
       LET o == Answer(op[t], r.out, r.val)
           v == start_ble_connection(o.attempt, r.val)
       IN IF r.out # "returned" THEN op' = [op EXCEPT ![t] = Raise(o, r.out)]
          ELSE IF v = "retry"
          THEN op' = [op EXCEPT ![t] = [o EXCEPT !.pc = "connect_wait",
                                                 !.attempt = @ + 1]]
          ELSE IF o.kind = "refresh"
          THEN op' = [op EXCEPT ![t] = refresh_after_connect(o, v)]
          ELSE op' = [op EXCEPT ![t] = command_after_connect(o, v)]
  /\ UNCHANGED <<ble_sequence, last_ble_poll, missing_relay_log_count, relay_reported, now, litter, codec>>

\* Lines 745-746 and 729-736: after the 3 s sleep the next frame is entered.
\* It posts the next connect call, or it gives up: its False is dropped by
\* the frames that awaited it and the caller receives None.
start_ble_connection_retry(t) ==
  /\ Running(t, "connect_wait")
  /\ IF connect_attempts_exhausted(op[t].attempt)
     THEN IF op[t].kind = "refresh"
          THEN op' = [op EXCEPT ![t] = refresh_after_connect(@, "None")]
          ELSE op' = [op EXCEPT ![t] = command_after_connect(@, "None")]
     ELSE op' = [op EXCEPT ![t] = Issue([@ EXCEPT !.pc = "connect"], "connect", 0)]
  /\ UNCHANGED <<ble_sequence, last_ble_poll, missing_relay_log_count, relay_reported, now, litter, codec>>

\* Lines 762-775: the response to a poll call; a failed one is followed by
\* the 3 s sleep, whatever its attempt number.
poll_ble_connection_response(t) ==
  /\ Running(t, "poll")
  /\ \E r \in Outcomes(PollResults) :
       LET o == Answer(op[t], r.out, r.val)
           v == poll_ble_connection(o.attempt, r.val)
       IN IF r.out # "returned" THEN op' = [op EXCEPT ![t] = Raise(o, r.out)]
          ELSE IF v = "retry"
          THEN op' = [op EXCEPT ![t] = [o EXCEPT !.pc = "poll_wait", !.attempt = @ + 1]]
          ELSE IF o.kind = "refresh"
          THEN op' = [op EXCEPT ![t] = refresh_after_poll(o, v)]
          ELSE op' = [op EXCEPT ![t] = command_after_poll(o, v)]
  /\ UNCHANGED <<ble_sequence, last_ble_poll, missing_relay_log_count, relay_reported, now, litter, codec>>

\* Lines 771-772 and 755-762: after the 3 s sleep the next frame is entered.
\* It posts the next poll call, or it gives up and the caller receives None.
poll_ble_connection_retry(t) ==
  /\ Running(t, "poll_wait")
  /\ IF poll_attempts_exhausted(op[t].attempt)
     THEN IF op[t].kind = "refresh"
          THEN op' = [op EXCEPT ![t] = refresh_after_poll(@, "None")]
          ELSE op' = [op EXCEPT ![t] = command_after_poll(@, "None")]
     ELSE op' = [op EXCEPT ![t] = Issue([@ EXCEPT !.pc = "poll"], "poll", 0)]
  /\ UNCHANGED <<ble_sequence, last_ble_poll, missing_relay_log_count, relay_reported, now, litter, codec>>

----
(***************************************************************************)
(* Cancellation.  When the task that runs an operation is cancelled,       *)
(* asyncio raises CancelledError at the await the operation is suspended   *)
(* in.  Only the handshake of the refresh (lines 390-394) stands inside a  *)
(* try statement: there the finally block runs before the exception goes   *)
(* on; at every other await of the refresh and of the command it leaves    *)
(* the operation at once.                                                  *)
(***************************************************************************)
\* The network call the operation was suspended in, if any, ends cancelled.
Interrupted(o) ==
  IF o.calls # <<>> /\ o.calls[Len(o.calls)].out = "pending"
  THEN Answer(o, "CancelledError", 0)
  ELSE o

\* Lines 390-391: the awaits inside `try: await self.initial_ble_commands(...)`.
InHandshakeTry(o) == o.kind = "refresh" /\ o.pc \in {"frame1", "frame2"}

Cancel(t) ==
  /\ op[t].status = "running"
  /\ LET o == Interrupted(op[t]) IN
     IF InHandshakeTry(o)
     THEN /\ op' = [op EXCEPT ![t] = refresh_finally(o, "CancelledError")]
          /\ last_ble_poll' = Put(last_ble_poll, o.dev, now)
     ELSE /\ op' = [op EXCEPT ![t] = Raise(o, "CancelledError")]
          /\ UNCHANGED last_ble_poll
  /\ UNCHANGED <<ble_sequence, missing_relay_log_count, relay_reported, now, litter, codec>>

----
(***************************************************************************)
(* The litter boxes: the manual pause tracker (self.manually_paused and    *)
(* self.manual_pause_end), its expiry check in the refresh                 *)
(* (_handle_litter_box) and its updates in control_litter_box.             *)
(***************************************************************************)

\* `datetime.now() + timedelta(seconds=660)`
PauseWindow == 660

\* The times at which the steps of the litter box model happen: the start,
\* and one second before, at and after the end of a pause made at the start.
LitterTimePoints == {0, PauseWindow - 1, PauseWindow, PauseWindow + 1}

\* The commands control_litter_box is given in this model; LIGHT_ON stands
\* for the commands that have nothing to do with cleaning.
LitterBoxCommands == {"START_CLEAN", "PAUSE_CLEAN", "RESUME_CLEAN", "LIGHT_ON"}

\* The snapshots of a LitterBox a command is called with: a Pura Max (t4)
\* that reports no workState, one whose manual clean is paused, one busy with
\* something else; and a Pura X (t3), which reports no workState.
LitterBoxes ==
  { [id |-> 3, type |-> "t4", has_workState |-> FALSE, workMode |-> 0, workProcess |-> 0],
    [id |-> 3, type |-> "t4", has_workState |-> TRUE, workMode |-> 0, workProcess |-> 20],
    [id |-> 3, type |-> "t4", has_workState |-> TRUE, workMode |-> 0, workProcess |-> 10],
    [id |-> 3, type |-> "t4", has_workState |-> TRUE, workMode |-> 1, workProcess |-> 20],
    [id |-> 4, type |-> "t3", has_workState |-> FALSE, workMode |-> 0, workProcess |-> 0] }

LitterIds == {b.id : b \in LitterBoxes}

\* The last item of a device record, and the records get_litter_box_record
\* may answer: an empty list, or a list that ends with the item.
RecordItems ==
  [enumEventType : {"clean_over", "pet_out"}, startReason : {3, 4}, result : {0, 3}]

DeviceRecords == {<<>>} \cup {<<item>> : item \in RecordItems}

LitterIssue(o, ep, cmd) ==
  [o EXCEPT !.calls = Append(@, [ep |-> ep, cmd |-> cmd, out |-> "pending"])]

LitterAnswer(o, out) == [o EXCEPT !.calls[Len(o.calls)].out = out]

LitterRunning(pc) == lb_op.status = "running" /\ lb_op.pc = pc

\* The clock of the litter box model.
TickLitter ==
  /\ \E later \in LitterTimePoints : later > now /\ now' = later
  /\ UNCHANGED <<fountain, litter, codec>>

\* The pause still running at the very second it ends.
pause_expired_late(current_end, current_dt) == current_end - current_dt < 0

\* Line 1129: `if (current_end - current_dt).total_seconds() <= 0`
pause_expired(current_end, current_dt) == current_end - current_dt <= 0

\* Lines 543-555: the refresh of one litter box; the device detail is asked for.
handle_litter_box(id) ==
  /\ lb_op.status # "running"
  /\ lb_op' = LitterIssue([IdleLitterOp EXCEPT !.kind = "refresh", !.id = id,
                                               !.status = "running", !.pc = "detail",
                                               !.paused_before = manually_paused,
                                               !.end_before = manual_pause_end,
                                               !.began = now],
                          "device_detail", "none")
  /\ UNCHANGED <<codec, fountain, now, manually_paused, manual_pause_end>>

\* Lines 555-574: the device detail arrives; the device record is asked for.
handle_litter_box_detail ==
  /\ LitterRunning("detail")
  /\ \E out \in {"returned"} \cup NetErrors :
       LET o == LitterAnswer(lb_op, out) IN
       IF out # "returned"
       THEN lb_op' = [o EXCEPT !.status = "raised", !.pc = "done", !.err = out, !.ended = now]
       ELSE lb_op' = LitterIssue([o EXCEPT !.pc = "record"], "device_record", "none")
  /\ UNCHANGED <<codec, fountain, now, manually_paused, manual_pause_end>>

\* Lines 574-591: the device record arrives; the statistics are asked for.
handle_litter_box_record ==
  /\ LitterRunning("record")
  /\ \E out \in {"returned"} \cup NetErrors :
       LET o == LitterAnswer(lb_op, out) IN
       IF out # "returned"
       THEN lb_op' = [o EXCEPT !.status = "raised", !.pc = "done", !.err = out, !.ended = now]
       ELSE lb_op' = LitterIssue([o EXCEPT !.pc = "statistic"], "statistic", "none")
  /\ UNCHANGED <<codec, fountain, now, manually_paused, manual_pause_end>>

\* Lines 1124-1131: check_manual_pause_expiration, as the pair of dicts after it.
check_manual_pause_expiration(id) ==
  IF \E current_end \in manual_pause_end[id] : pause_expired(current_end, now)
  THEN <<Put(manually_paused, id, FALSE), Put(manual_pause_end, id, None)>>
  ELSE <<manually_paused, manual_pause_end>>

\* Lines 591-638: the statistics arrive; the pause is checked for expiry when
\* the tracker holds it as running, and the LitterBox is built and returned.
handle_litter_box_statistic ==
  /\ LitterRunning("statistic")
  /\ \E out \in {"returned"} \cup NetErrors :
       LET o == LitterAnswer(lb_op, out)
           id == lb_op.id
           checked == IF id \in DOMAIN manually_paused /\ manually_paused[id]
                      THEN check_manual_pause_expiration(id)
                      ELSE <<manually_paused, manual_pause_end>>
       IN IF out # "returned"
          THEN /\ lb_op' = [o EXCEPT !.status = "raised", !.pc = "done", !.err = out,
                                     !.ended = now]
               /\ UNCHANGED <<manually_paused, manual_pause_end>>
          ELSE IF id \in DOMAIN manually_paused /\ manually_paused[id]
                  /\ manual_pause_end[id] = None
          THEN \* `current_end - current_dt` with current_end None
               /\ lb_op' = [o EXCEPT !.status = "raised", !.pc = "done",
                                     !.err = "TypeError", !.ended = now]
               /\ UNCHANGED <<manually_paused, manual_pause_end>>
          ELSE /\ manually_paused' = checked[1]
               /\ manual_pause_end' = checked[2]
               /\ lb_op' = [o EXCEPT !.status = "returned", !.pc = "done", !.ended = now,
                              !.manually_paused =
                                 IF id \in DOMAIN checked[1] THEN checked[1][id] ELSE FALSE,
                              !.manual_pause_end =
                                 IF id \in DOMAIN checked[2] THEN checked[2][id] ELSE None]
  /\ UNCHANGED <<codec, fountain, now>>

\* The flag cleared and the end time forgotten.
tracker_cleared_flag_only(paused, ends, id) == <<Put(paused, id, FALSE), ends>>

\* Lines 1045-1046 and 1091-1092: the pair of dicts with the pause of id cleared.
tracker_cleared(paused, ends, id) == <<Put(paused, id, FALSE), Put(ends, id, None)>>

\* Lines 1050-1052 and 1095-1097: the pair of dicts with a pause of id noted.
tracker_paused(paused, ends, id, current_dt) ==
  <<Put(paused, id, TRUE), Put(ends, id, Some(current_dt + PauseWindow))>>

\* The work process not looked at.
paused_work_state_mode_only(lbx) == lbx.workMode = 0

\* Line 1043: the workState of a paused manual clean.
paused_work_state(lbx) == lbx.workMode = 0 /\ lbx.workProcess = 20

\* Lines 1036-1048: the command a t4 litter box is sent, or the refusal; every
\* other litter box is sent the command as it is.
litter_box_command(lbx, command) ==
  IF lbx.type = "t4" /\ command = "START_CLEAN" /\ lbx.has_workState
  THEN IF paused_work_state(lbx) THEN "RESUME_CLEAN" ELSE "refused"
  ELSE command

\* A clean_over event taken for a paused clean whatever its result.
paused_outcome_any_result(record) ==
  /\ record # <<>>
  /\ record[Len(record)].enumEventType = "clean_over"
  /\ record[Len(record)].startReason \in {0, 1, 2, 3}

\* Lines 1086-1089: the most recent item of the record is a clean that ended
\* paused.
paused_outcome(record) ==
  /\ record # <<>>
  /\ record[Len(record)].enumEventType = "clean_over"
  /\ record[Len(record)].startReason \in {0, 1, 2, 3}
  /\ record[Len(record)].result = 3

\* Lines 1030-1075: the t4 rules, which update the tracker before anything is
\* sent, and the call that sends the command.
control_litter_box(lbx, command) ==
  /\ lb_op.status # "running"
  /\ LET o == [IdleLitterOp EXCEPT !.kind = "command", !.id = lbx.id, !.type = lbx.type,
                                   !.status = "running", !.cmd = command,
                                   !.paused_before = manually_paused,
                                   !.end_before = manual_pause_end, !.began = now]
         sent == litter_box_command(lbx, command)
         tracker ==
           IF lbx.type = "t4" /\ command = "START_CLEAN" /\ sent = "RESUME_CLEAN"
           THEN tracker_cleared(manually_paused, manual_pause_end, lbx.id)
           ELSE IF lbx.type = "t4" /\ sent = "PAUSE_CLEAN"
           THEN tracker_paused(manually_paused, manual_pause_end, lbx.id, now)
           ELSE <<manually_paused, manual_pause_end>>
     IN IF sent = "refused"
        THEN /\ lb_op' = [o EXCEPT !.status = "raised", !.pc = "done",
                                   !.err = "PetKitError", !.ended = now]
             /\ UNCHANGED <<manually_paused, manual_pause_end>>
        ELSE /\ lb_op' = LitterIssue([o EXCEPT !.pc = "control"], "control", sent)
             /\ manually_paused' = tracker[1]
             /\ manual_pause_end' = tracker[2]
  /\ UNCHANGED <<codec, fountain, now>>

\* Lines 1075-1097: the command was sent.  A t3 litter box that was sent
\* START_CLEAN sleeps 1 s before it reads the record; one that was sent
\* PAUSE_CLEAN notes the pause now.
control_litter_box_sent ==
  /\ LitterRunning("control")
  /\ \E out \in {"returned"} \cup NetErrors :
       LET o == LitterAnswer(lb_op, out)
           sent == lb_op.calls[Len(lb_op.calls)].cmd
           tracker == IF out = "returned" /\ lb_op.type = "t3" /\ sent = "PAUSE_CLEAN"
                      THEN tracker_paused(manually_paused, manual_pause_end, lb_op.id, now)
                      ELSE <<manually_paused, manual_pause_end>>
       IN /\ manually_paused' = tracker[1]
          /\ manual_pause_end' = tracker[2]
          /\ IF out # "returned"
             THEN lb_op' = [o EXCEPT !.status = "raised", !.pc = "done", !.err = out,
                                     !.ended = now]
             ELSE IF lb_op.type = "t3" /\ sent = "START_CLEAN"
             THEN lb_op' = [o EXCEPT !.pc = "settle"]
             ELSE lb_op' = [o EXCEPT !.status = "returned", !.pc = "done", !.ended = now]
  /\ UNCHANGED <<codec, fountain, now>>

\* Lines 1084-1085 and 938-947: after the 1 s sleep the device record is asked for.
control_litter_box_settled ==
  /\ LitterRunning("settle")
  /\ lb_op' = LitterIssue([lb_op EXCEPT !.pc = "read_record"], "device_record", "none")
  /\ UNCHANGED <<codec, fountain, now, manually_paused, manual_pause_end>>

\* Lines 1085-1090: the record arrives; RESUME_CLEAN is sent when its most
\* recent item is a clean that ended paused.
get_litter_box_record ==
  /\ LitterRunning("read_record")
  /\ \E out \in {"returned"} \cup NetErrors, record \in DeviceRecords :
       LET o == LitterAnswer(lb_op, out) IN
       IF out # "returned"
       THEN lb_op' = [o EXCEPT !.status = "raised", !.pc = "done", !.err = out, !.ended = now]
       ELSE IF paused_outcome(record)
       THEN lb_op' = LitterIssue([o EXCEPT !.record = record, !.pc = "resume"],
                                 "control", "RESUME_CLEAN")
       ELSE lb_op' = [o EXCEPT !.record = record, !.status = "returned", !.pc = "done",
                               !.ended = now]
  /\ UNCHANGED <<codec, fountain, now, manually_paused, manual_pause_end>>

\* Lines 1090-1092: the inner control_litter_box call, which sent RESUME_CLEAN,
\* returns, and the pause is cleared; or it raises.
control_litter_box_resumed ==
  /\ LitterRunning("resume")
  /\ \E out \in {"returned"} \cup NetErrors :
       LET o == LitterAnswer(lb_op, out)
           tracker == IF out = "returned"
                      THEN tracker_cleared(manually_paused, manual_pause_end, lb_op.id)
                      ELSE <<manually_paused, manual_pause_end>>
       IN /\ manually_paused' = tracker[1]
          /\ manual_pause_end' = tracker[2]
          /\ IF out # "returned"
             THEN lb_op' = [o EXCEPT !.status = "raised", !.pc = "done", !.err = out,
                                     !.ended = now]
             ELSE lb_op' = [o EXCEPT !.status = "returned", !.pc = "done", !.ended = now]
  /\ UNCHANGED <<codec, fountain, now>>

----
(***************************************************************************)
(* The byte codec: create_ble_data and the functions it calls.  A byte     *)
(* list holds the signed values the source writes; byte_array folds them   *)
(* to the bytes that are sent, b64encode and quote wrap those as text.     *)
(***************************************************************************)
W5Command ==
  {"PAUSE", "NORMAL_TO_PAUSE", "SMART_TO_PAUSE", "NORMAL", "SMART", "RESET_FILTER",
   "DO_NOT_DISTURB", "DO_NOT_DISTURB_OFF", "FIRST_BLE_CMND", "SECOND_BLE_CMND",
   "LIGHT_LOW", "LIGHT_MEDIUM", "LIGHT_HIGH", "LIGHT_ON", "LIGHT_OFF"}

BLE_HEADER == <<-6, -4, -3>>

\* Every command sent with the code of the mode transitions.
W5_COMMAND_TO_CODE_all_mode ==
  [command \in W5Command \ {"FIRST_BLE_CMND", "SECOND_BLE_CMND"} |-> "220"]

\* constants.py, lines 353-367.
W5_COMMAND_TO_CODE ==
  ("DO_NOT_DISTURB" :> "221") @@ ("DO_NOT_DISTURB_OFF" :> "221") @@
  ("LIGHT_ON" :> "221") @@ ("LIGHT_OFF" :> "221") @@ ("LIGHT_LOW" :> "221") @@
  ("LIGHT_MEDIUM" :> "221") @@ ("LIGHT_HIGH" :> "221") @@ ("PAUSE" :> "220") @@
  ("RESET_FILTER" :> "222") @@ ("NORMAL" :> "220") @@ ("NORMAL_TO_PAUSE" :> "220") @@
  ("SMART" :> "220") @@ ("SMART_TO_PAUSE" :> "220")

W5_DND_COMMANDS == {"DO_NOT_DISTURB", "DO_NOT_DISTURB_OFF"}
W5_LIGHT_POWER == {"LIGHT_ON", "LIGHT_OFF"}
W5_SETTINGS_COMMANDS ==
  {"DO_NOT_DISTURB", "DO_NOT_DISTURB_OFF", "LIGHT_LOW", "LIGHT_MEDIUM", "LIGHT_HIGH",
   "LIGHT_ON", "LIGHT_OFF"}

\* Little-endian: the low byte first.
short_to_byte_list_low_first(input) == <<input % 256, (input \div 256) % 256>>

\* The loop of short_to_byte_list: `(input >> (16 - (i2 * 8))) & 255` for
\* i2 = 1, 2.
RECURSIVE short_to_byte_list_from(_, _, _)
short_to_byte_list_from(input, i, byte_list) ==
  IF i < 2
  THEN LET i2 == i + 1
       IN short_to_byte_list_from(input, i2,
            Append(byte_list, (input \div 2^(16 - (i2 * 8))) % 256))
  ELSE byte_list

short_to_byte_list(input) == short_to_byte_list_from(input, 0, <<>>)

\* The new value put into the brightness field whatever the command class.
w5_command_data_creator_brightness_only(device, command, setting) ==
  IF command \notin W5_SETTINGS_COMMANDS THEN <<>>
  ELSE <<device.smartWorkingTime>> \o <<device.smartSleepTime>>
         \o <<device.lampRingSwitch>> \o setting
         \o short_to_byte_list(device.lampRingLightUpTime)
         \o short_to_byte_list(device.lampRingGoOutTime)
         \o <<device.noDisturbingSwitch>>
         \o short_to_byte_list(device.noDisturbingStartTime)
         \o short_to_byte_list(device.noDisturbingEndTime)

\* Lines 862-909.  The three `if command in ...` follow one another, so the
\* last class that holds the command decides.
w5_command_data_creator(device, command, setting) ==
  IF command \notin W5_SETTINGS_COMMANDS THEN <<>>
  ELSE LET light_up == short_to_byte_list(device.lampRingLightUpTime)
           light_out == short_to_byte_list(device.lampRingGoOutTime)
           disturb_start == short_to_byte_list(device.noDisturbingStartTime)
           disturb_end == short_to_byte_list(device.noDisturbingEndTime)
       IN IF command \in W5_DND_COMMANDS
          THEN <<device.smartWorkingTime>> \o <<device.smartSleepTime>>
                 \o <<device.lampRingSwitch>> \o <<device.lampRingBrightness>>
                 \o light_up \o light_out \o setting \o disturb_start \o disturb_end
          ELSE IF command \in W5_LIGHT_BRIGHTNESS
          THEN <<device.smartWorkingTime>> \o <<device.smartSleepTime>>
                 \o <<device.lampRingSwitch>> \o setting
                 \o light_up \o light_out \o <<device.noDisturbingSwitch>>
                 \o disturb_start \o disturb_end
          ELSE IF command \in W5_LIGHT_POWER
          THEN <<device.smartWorkingTime>> \o <<device.smartSleepTime>>
                 \o setting \o <<device.lampRingBrightness>>
                 \o light_up \o light_out \o <<device.noDisturbingSwitch>>
                 \o disturb_start \o disturb_end
          ELSE <<>>

\* The length bytes in the wrong order: high byte first.
create_ble_byte_list_high_first(command, data_list) ==
  BLE_HEADER \o <<command>> \o <<1>> \o <<ble_sequence>>
    \o <<Len(data_list) \div 256>> \o <<Len(data_list) % 256>> \o data_list \o <<-5>>

\* Lines 914-924: `len & 255` is the length modulo 256 and `len >> 8` the
\* length divided by 256.
create_ble_byte_list(command, data_list) ==
  BLE_HEADER \o <<command>> \o <<1>> \o <<ble_sequence>>
    \o <<Len(data_list) % 256>> \o <<Len(data_list) \div 256>> \o data_list \o <<-5>>

\* Lines 822-849: the `setting` create_ble_data passes for each command.
setting(command) ==
  IF command \in {"LIGHT_OFF", "DO_NOT_DISTURB_OFF"} THEN <<0>>
  ELSE IF command \in {"LIGHT_ON", "LIGHT_LOW", "DO_NOT_DISTURB"} THEN <<1>>
  ELSE IF command = "LIGHT_MEDIUM" THEN <<2>>
  ELSE <<3>>

\* Lines 824-849: the payload of a settings command's frame.
data_list(command, device) == w5_command_data_creator(device, command, setting(command))

\* Lines 825-849: `create_ble_byte_list(command=-35, ...)`.
settings_opcode == -35

\* Lines 808-852: byte_list of create_ble_data.  A command no branch matches
\* (W5Command.PAUSE) leaves the list empty.
byte_list(command, device) ==
  IF command = "FIRST_BLE_CMND" THEN <<-6, -4, -3, -41, 1, ble_sequence, 0, 0, -5>>
  ELSE IF command = "SECOND_BLE_CMND" THEN <<-6, -4, -3, -40, 1, ble_sequence, 0, 0, -5>>
  ELSE IF command = "NORMAL_TO_PAUSE"
  THEN <<-6, -4, -3, -36, 1, ble_sequence, 2, 0, 0, 1, -5>>
  ELSE IF command = "SMART_TO_PAUSE"
  THEN <<-6, -4, -3, -36, 1, ble_sequence, 2, 0, 0, 2, -5>>
  ELSE IF command = "NORMAL" THEN <<-6, -4, -3, -36, 1, ble_sequence, 2, 0, 1, 1, -5>>
  ELSE IF command = "SMART" THEN <<-6, -4, -3, -36, 1, ble_sequence, 2, 0, 1, 2, -5>>
  ELSE IF command \in W5_SETTINGS_COMMANDS
  THEN create_ble_byte_list(settings_opcode, data_list(command, device))
  ELSE IF command = "RESET_FILTER" THEN <<-6, -4, -3, -34, 1, ble_sequence, 0, 0, -5>>
  ELSE <<>>

\* The sign dropped instead of the value folded: -6 sent as 6.
byte_array_magnitude(bytes) ==
  [i \in DOMAIN bytes |-> (IF bytes[i] < 0 THEN -bytes[i] ELSE bytes[i]) % 256]

\* Line 854: `bytearray([x % 256 for x in byte_list])`.
byte_array(bytes) == [i \in DOMAIN bytes |-> bytes[i] % 256]

\* The alphabet of base64.b64encode.
B64Alphabet ==
  << "A", "B", "C", "D", "E", "F", "G", "H", "I", "J", "K", "L", "M", "N", "O", "P",
     "Q", "R", "S", "T", "U", "V", "W", "X", "Y", "Z", "a", "b", "c", "d", "e", "f",
     "g", "h", "i", "j", "k", "l", "m", "n", "o", "p", "q", "r", "s", "t", "u", "v",
     "w", "x", "y", "z", "0", "1", "2", "3", "4", "5", "6", "7", "8", "9", "+", "/" >>

\* Line 855: base64.b64encode, three bytes to four characters, padded with "=".
RECURSIVE b64encode_from(_, _)
b64encode_from(bytes, i) ==
  IF i > Len(bytes) THEN <<>>
  ELSE LET b0 == bytes[i]
           b1 == IF i + 1 <= Len(bytes) THEN bytes[i + 1] ELSE 0
           b2 == IF i + 2 <= Len(bytes) THEN bytes[i + 2] ELSE 0
           n == b0 * 65536 + b1 * 256 + b2
           c0 == B64Alphabet[(n \div 262144) + 1]
           c1 == B64Alphabet[((n \div 4096) % 64) + 1]
           c2 == IF i + 1 <= Len(bytes) THEN B64Alphabet[((n \div 64) % 64) + 1] ELSE "="
           c3 == IF i + 2 <= Len(bytes) THEN B64Alphabet[(n % 64) + 1] ELSE "="
       IN <<c0, c1, c2, c3>> \o b64encode_from(bytes, i + 3)

b64encode(bytes) == b64encode_from(bytes, 1)

\* Line 856: urllib.parse.quote(b64_encoded, 'utf-8').  The second argument is
\* `safe`, so "/" is no longer safe: of the base64 characters "+", "/" and "="
\* are percent-encoded.
RECURSIVE quote_from(_, _)
quote_from(chars, i) ==
  IF i > Len(chars) THEN ""
  ELSE (IF chars[i] = "+" THEN "%2B"
        ELSE IF chars[i] = "/" THEN "%2F"
        ELSE IF chars[i] = "=" THEN "%3D"
        ELSE chars[i]) \o quote_from(chars, i + 1)

quote(chars) == quote_from(chars, 1)

\* Lines 805-857: the text create_ble_data returns.
create_ble_data(command, device) == quote(b64encode(byte_array(byte_list(command, device))))

\* Lines 785 and 796: the command code sent with each handshake frame.
initial_ble_commands_cmd(command) == IF command = "FIRST_BLE_CMND" THEN "215" ELSE "216"

\* The values self.ble_sequence has when a frame is built: 0 to 3 while one
\* operation runs at a time; it is a Python int without an upper limit, and
\* overlapping refreshes each add to it, so one value above a byte as well.
SequenceValues == {0, 1, 2, 3, 257}

\* W5Fountain.data as far as the commands read it: powerStatus, mode and the
\* settings.  The times are minutes, sent as shorts.
FountainData ==
  [powerStatus : {0, 1}, mode : {1, 2},
   smartWorkingTime : {10, 3}, smartSleepTime : {20},
   lampRingSwitch : {0, 1}, lampRingBrightness : {1, 3},
   lampRingLightUpTime : {1280, 7}, lampRingGoOutTime : {2560},
   noDisturbingSwitch : {0, 1}, noDisturbingStartTime : {0, 1320},
   noDisturbingEndTime : {0, 420}]

\* `device=None`: the handshake frames are built without a fountain.
NoFountainData ==
  [powerStatus |-> 0, mode |-> 0, smartWorkingTime |-> 0, smartSleepTime |-> 0,
   lampRingSwitch |-> 0, lampRingBrightness |-> 0, lampRingLightUpTime |-> 0,
   lampRingGoOutTime |-> 0, noDisturbingSwitch |-> 0, noDisturbingStartTime |-> 0,
   noDisturbingEndTime |-> 0]

\* The payload lengths create_ble_byte_list is given on its own.
PayloadLengths == {0, 13, 255, 256, 300}

\* The 16-bit unsigned values.
Shorts == 0 .. (2^16 - 1)

\* The calls of the codec a behaviour starts with: the function and its
\* arguments, not yet applied.
CodecCalls ==
  {[IdleCodec EXCEPT !.call = "control_water_fountain", !.command = command,
                     !.device = wf] :
     wf \in FountainData, command \in DOMAIN W5_COMMAND_TO_CODE}
    \cup {[IdleCodec EXCEPT !.call = "initial_ble_commands", !.command = command] :
            command \in {"FIRST_BLE_CMND", "SECOND_BLE_CMND"}}
    \cup {[IdleCodec EXCEPT !.call = "create_ble_byte_list", !.opcode = settings_opcode,
                            !.data_list = [i \in 1..n |-> i % 256]] :
            n \in PayloadLengths}

ShortCalls ==
  {[IdleCodec EXCEPT !.call = "short_to_byte_list", !.input = input] : input \in Shorts}

Called(call) == codec.call = call /\ ~codec.returned

\* Lines 954-991: control_water_fountain builds the frame of a command it
\* does not refuse, and looks up the command code sent with it.
control_water_fountain_frame ==
  /\ Called("control_water_fountain")
  /\ command_frame(codec.device, codec.command) # "refused"
  /\ LET wf == codec.device
         frame == command_frame(wf, codec.command)
     IN codec' = [codec EXCEPT
                    !.returned = TRUE, !.frame_command = frame,
                    !.sequence = ble_sequence,
                    !.cmd = W5_COMMAND_TO_CODE[codec.command],
                    !.data_list = IF frame \in W5_SETTINGS_COMMANDS
                                  THEN data_list(frame, wf) ELSE <<>>,
                    !.byte_list = byte_list(frame, wf),
                    !.byte_array = byte_array(byte_list(frame, wf)),
                    !.data = create_ble_data(frame, wf)]
  /\ UNCHANGED <<fountain, now, litter>>

\* Lines 782-789 and 793-800: initial_ble_commands builds a handshake frame.
initial_ble_commands_frame ==
  /\ Called("initial_ble_commands")
  /\ LET command == codec.command IN
     codec' = [codec EXCEPT
                 !.returned = TRUE, !.frame_command = command,
                 !.sequence = ble_sequence,
                 !.cmd = initial_ble_commands_cmd(command),
                 !.byte_list = byte_list(command, NoFountainData),
                 !.byte_array = byte_array(byte_list(command, NoFountainData)),
                 !.data = create_ble_data(command, NoFountainData)]
  /\ UNCHANGED <<fountain, now, litter>>

\* create_ble_byte_list applied to a payload of any length.
create_ble_byte_list_call ==
  /\ Called("create_ble_byte_list")
  /\ codec' = [codec EXCEPT
                 !.returned = TRUE, !.sequence = ble_sequence,
                 !.byte_list = create_ble_byte_list(codec.opcode, codec.data_list),
                 !.byte_array =
                    byte_array(create_ble_byte_list(codec.opcode, codec.data_list))]
  /\ UNCHANGED <<fountain, now, litter>>

\* short_to_byte_list applied to a value.
short_to_byte_list_call ==
  /\ Called("short_to_byte_list")
  /\ codec' = [codec EXCEPT !.returned = TRUE,
                            !.byte_list = short_to_byte_list(codec.input)]
  /\ UNCHANGED <<fountain, now, litter>>

----
(***************************************************************************)
(* The specifications.  One caller awaits each operation before it starts  *)
(* the next.  Spec: the account holds one water fountain.                  *)
(* SpecTwoFountains: it holds two, both refreshed, and the commands go to  *)
(* the first.                                                              *)
(***************************************************************************)
Caller == CHOOSE t \in Tasks : \A u \in Tasks : t <= u
OneFountain == {1}

Step(t) ==
  \/ handle_water_fountain_relays(t)
  \/ handle_water_fountain_details(t)
  \/ handle_water_fountain_fetch(t)
  \/ handle_water_fountain_settled(t)
  \/ initial_ble_commands_first(t)
  \/ initial_ble_commands_second(t)
  \/ handle_water_fountain_refetch(t)
  \/ handle_water_fountain_disconnect(t)
  \/ handle_water_fountain_disconnected(t)
  \/ control_water_fountain_settled(t)
  \/ control_water_fountain_sent(t)
  \/ control_water_fountain_disconnect(t)
  \/ control_water_fountain_disconnected(t)
  \/ start_ble_connection_response(t)
  \/ start_ble_connection_retry(t)
  \/ poll_ble_connection_response(t)
  \/ poll_ble_connection_retry(t)

Refresh(t, fountains) ==
  \E d \in fountains, has_relay \in BOOLEAN : handle_water_fountain(t, d, has_relay)

Command(t, fountains) ==
  \E wf \in {f \in Fountains : f.id \in fountains}, command \in Commands :
    control_water_fountain(t, wf, command)

Next ==
  \/ Tick
  \/ Refresh(Caller, OneFountain)
  \/ Command(Caller, OneFountain)
  \/ Step(Caller)

Spec == Init /\ [][Next]_vars

NextTwoFountains ==
  \/ Tick
  \/ Refresh(Caller, Devices)
  \/ Command(Caller, OneFountain)
  \/ Step(Caller)

SpecTwoFountains == Init /\ [][NextTwoFountains]_vars

\* One fountain under a running event loop: every network call that was issued
\* is answered or raises, and every sleep of the operation ends, so a step of
\* the operation that stays possible is eventually taken.
SpecTerminating == Init /\ [][Next]_vars /\ WF_vars(Step(Caller))

\* SpecConcurrent: two tasks of one event loop.  One runs the refreshes, the
\* other the commands; a step of either runs from one await to the next, and
\* nothing in the client orders the steps of the two.
Controller == CHOOSE t \in Tasks : t # Caller

\* The command the second task gives while the first refreshes: NORMAL, for the
\* snapshot of the fountain running in normal mode with a relay in its group.
ConcurrentFountains ==
  {f \in Fountains : f.id \in OneFountain /\ f.group_relay /\ f.powerStatus = 1 /\ f.mode = 1}
ConcurrentCommands == {"NORMAL"}

NextConcurrent ==
  \/ Tick
  \/ Refresh(Caller, OneFountain)
  \/ \E wf \in ConcurrentFountains, command \in ConcurrentCommands :
       control_water_fountain(Controller, wf, command)
  \/ Step(Caller)
  \/ Step(Controller)

SpecConcurrent == Init /\ [][NextConcurrent]_vars

\* SpecCancellation: as Spec, and the caller's task may be cancelled while an
\* operation is suspended.
NextCancellation ==
  \/ Next
  \/ Cancel(Caller)

SpecCancellation == Init /\ [][NextCancellation]_vars

\* SpecCodec: the frames the client builds, for each value of the counter.
InitCodec ==
  /\ ble_sequence \in SequenceValues
  /\ last_ble_poll = EmptyDict
  /\ missing_relay_log_count = EmptyDict
  /\ relay_reported = EmptyDict
  /\ now = 0
  /\ op = [t \in Tasks |-> IdleOp]
  /\ manually_paused = EmptyDict
  /\ manual_pause_end = EmptyDict
  /\ lb_op = IdleLitterOp
  /\ codec \in CodecCalls

NextCodec ==
  \/ control_water_fountain_frame
  \/ initial_ble_commands_frame
  \/ create_ble_byte_list_call

SpecCodec == InitCodec /\ [][NextCodec]_vars

\* SpecShorts: short_to_byte_list applied to each 16-bit value.
InitShorts ==
  /\ ble_sequence = 0
  /\ last_ble_poll = EmptyDict
  /\ missing_relay_log_count = EmptyDict
  /\ relay_reported = EmptyDict
  /\ now = 0
  /\ op = [t \in Tasks |-> IdleOp]
  /\ manually_paused = EmptyDict
  /\ manual_pause_end = EmptyDict
  /\ lb_op = IdleLitterOp
  /\ codec \in ShortCalls

NextShorts == short_to_byte_list_call

SpecShorts == InitShorts /\ [][NextShorts]_vars

\* SpecConsecutive: get_petkit_data run again after the operations before it
\* have ended; the later refresh runs in a task of its own, so that the
\* refresh before it can still be looked at.
NextConsecutive ==
  \/ Tick
  \/ /\ op[Controller].status = "idle"
     /\ Refresh(Caller, OneFountain) \/ Command(Caller, OneFountain)
  \/ /\ op[Caller].status \in {"returned", "raised"}
     /\ op[Controller].status = "idle"
     /\ Refresh(Controller, OneFountain)
  \/ Step(Caller)
  \/ Step(Controller)

SpecConsecutive == Init /\ [][NextConsecutive]_vars

\* SpecLitterBox: the account holds two litter boxes, a t4 and a t3; one
\* caller refreshes them and sends them commands, one operation at a time.
NextLitterBox ==
  \/ TickLitter
  \/ \E id \in LitterIds : handle_litter_box(id)
  \/ handle_litter_box_detail
  \/ handle_litter_box_record
  \/ handle_litter_box_statistic
  \/ \E lbx \in LitterBoxes, command \in LitterBoxCommands : control_litter_box(lbx, command)
  \/ control_litter_box_sent
  \/ control_litter_box_settled
  \/ get_litter_box_record
  \/ control_litter_box_resumed

SpecLitterBox == Init /\ [][NextLitterBox]_vars

----
(***************************************************************************)
(* Vocabulary of the properties.                                           *)
(***************************************************************************)
CallsTo(o, ep) == {i \in DOMAIN o.calls : o.calls[i].ep = ep}

Ended(o) == o.status \in {"returned", "raised"}

\* Every call the operation issued so far was answered with a response.
NoCallRaised(o) == \A i \in DOMAIN o.calls : o.calls[i].out \in {"pending", "returned"}

ConnectOk(c) == c.ep = "connect" /\ c.out = "returned" /\ c.val = 1
PollOk(c) == c.ep = "poll" /\ c.out = "returned" /\ c.val = 0
ConnectFailed(c) == c.ep = "connect" /\ c.out = "returned" /\ c.val # 1
PollFailed(c) == c.ep = "poll" /\ c.out = "returned" /\ c.val # 0

\* The connect (poll) step is over and each of its responses was a failure.
ConnectAllFailed(o) ==
  /\ o.conn_success # "unset"
  /\ \A i \in CallsTo(o, "connect") : ConnectFailed(o.calls[i])

PollAllFailed(o) ==
  /\ o.poll_success # "unset"
  /\ \A i \in CallsTo(o, "poll") : PollFailed(o.calls[i])

----
(***************************************************************************)
(* C1.  In a refresh and in a command alike, a connect step counts as      *)
(* successful and the operation goes on to poll if any of its at most 4    *)
(* connect responses has state == 1, the first or a later one; and a poll  *)
(* step counts as successful and the operation goes on to send its frames  *)
(* if any of its at most 4 poll responses has result == 0.  Stated of an   *)
(* operation that has ended and none of whose calls raised.                *)
(***************************************************************************)
C1_AnySuccessfulAttemptCounts ==
  \A t \in Tasks :
    LET o == op[t] IN
    (Ended(o) /\ NoCallRaised(o)) =>
      /\ (\E i \in DOMAIN o.calls : ConnectOk(o.calls[i])) => CallsTo(o, "poll") # {}
      /\ (\E i \in DOMAIN o.calls : PollOk(o.calls[i])) => CallsTo(o, "control") # {}

(***************************************************************************)
(* C2.  A connect step whose responses all have state # 1 issues exactly 4 *)
(* connect calls and then reports failure, and a poll step whose responses *)
(* all have result # 0 issues exactly 4 poll calls and then reports        *)
(* failure; no operation ever issues a 5th connect or a 5th poll call.     *)
(***************************************************************************)
C2_ExactlyFourAttempts ==
  \A t \in Tasks :
    LET o == op[t] IN
    /\ Cardinality(CallsTo(o, "connect")) <= 4
    /\ Cardinality(CallsTo(o, "poll")) <= 4
    /\ ConnectAllFailed(o) =>
         Cardinality(CallsTo(o, "connect")) = 4 /\ ~Truthy(o.conn_success)
    /\ PollAllFailed(o) =>
         Cardinality(CallsTo(o, "poll")) = 4 /\ ~Truthy(o.poll_success)

\* A refresh whose four poll responses all failed, after its connect succeeded.
C2_Witness ==
  \E t \in Tasks :
    /\ op[t].kind = "refresh" /\ PollAllFailed(op[t])
    /\ Cardinality(CallsTo(op[t], "poll")) = 4

(***************************************************************************)
(* C3.  When the connect step or the poll step has used up its 4 attempts  *)
(* (4 responses, each a failure) and no network call of the operation      *)
(* raised, a command ends by raising BluetoothError without having sent a  *)
(* control frame, and a refresh ends by returning, without raising, the    *)
(* appliance state that a plain data fetch (a w5 call) answered.           *)
(***************************************************************************)
StepExhausted(o) ==
  \/ ConnectAllFailed(o) /\ Cardinality(CallsTo(o, "connect")) = 4
  \/ PollAllFailed(o) /\ Cardinality(CallsTo(o, "poll")) = 4

C3_ExhaustionRaisesOrFallsBack ==
  \A t \in Tasks :
    LET o == op[t] IN
    (Ended(o) /\ NoCallRaised(o) /\ StepExhausted(o)) =>
      /\ o.kind = "command" =>
           /\ o.status = "raised" /\ o.err = "BluetoothError"
           /\ CallsTo(o, "control") = {}
      /\ o.kind = "refresh" =>
           /\ o.status = "returned"
           /\ o.fountain_data \in CallsTo(o, "w5")
           /\ o.calls[o.fountain_data].out = "returned"
           /\ CallsTo(o, "control") = {}

\* A command that raised after four failed poll responses.
C3_Witness ==
  \E t \in Tasks :
    /\ op[t].kind = "command" /\ Ended(op[t]) /\ NoCallRaised(op[t])
    /\ PollAllFailed(op[t]) /\ Cardinality(CallsTo(op[t], "poll")) = 4

(***************************************************************************)
(* C4.  An operation has completed the full cycle when it returned after   *)
(* connect and poll succeeded, its frames were sent and answered (two      *)
(* handshake frames in a refresh, one frame in a command) and the          *)
(* disconnect call was answered.                                           *)
(***************************************************************************)
FullCycle(o) ==
  /\ o.status = "returned" /\ NoCallRaised(o)
  /\ Truthy(o.conn_success) /\ Truthy(o.poll_success)
  /\ Cardinality(CallsTo(o, "control")) = (IF o.kind = "refresh" THEN 2 ELSE 1)
  /\ CallsTo(o, "cancel") # {}

\* C4 as claimed: after any operation that completed the full cycle,
\* refresh or command, ble_sequence is 0.
C4_ZeroAfterFullCycle ==
  \A t \in Tasks : FullCycle(op[t]) => ble_sequence = 0

\* C4 as amended: after a command that completed the full cycle ble_sequence
\* is 0; after a refresh that completed it ble_sequence is 3, one more than
\* the sequence byte of the second handshake frame.
C4_ZeroAfterCommandThreeAfterRefresh ==
  \A t \in Tasks :
    FullCycle(op[t]) =>
      ble_sequence = (IF op[t].kind = "command" THEN 0 ELSE 3)

\* A command completed the full cycle although the counter stood at 3 when
\* it began.
C4_Witness ==
  \E t \in Tasks :
    op[t].kind = "command" /\ FullCycle(op[t]) /\ op[t].seq_at_start = 3

(***************************************************************************)
(* C5.  An operation ended without completing the cycle when it ended      *)
(* after its connect or poll step failed on all 4 attempts, after one of   *)
(* its frame sends raised, or because no relay was available (the group    *)
(* reports no relay, the candidate list is empty or no candidate is        *)
(* online).                                                                *)
(***************************************************************************)
NoRelayAvailable(o) ==
  \/ ~o.has_relay
  \/ /\ o.kind = "refresh" /\ CallsTo(o, "ble_devices") # {}
     /\ o.calls[1].out = "returned" /\ relay_decision(o.relays) # "Available"

FrameSendRaised(o) ==
  \E i \in CallsTo(o, "control") : o.calls[i].out \in NetErrors

EndedIncomplete(o) ==
  Ended(o) /\ (StepExhausted(o) \/ FrameSendRaised(o) \/ NoRelayAvailable(o))

\* C5 as claimed: ble_sequence is 0 after every such operation.
C5_ZeroAfterIncompleteOperation ==
  \A t \in Tasks : EndedIncomplete(op[t]) => ble_sequence = 0

\* C5 as amended: such an operation does not reset the counter.  It leaves
\* ble_sequence at the value it had when the operation began, except that a
\* refresh one of whose handshake frame sends raised leaves it at the
\* sequence byte of that frame (1 or 2).
C5_CounterKeptAfterIncompleteOperation ==
  \A t \in Tasks :
    LET o == op[t] IN
    EndedIncomplete(o) =>
      IF o.kind = "refresh" /\ FrameSendRaised(o)
      THEN ble_sequence = Cardinality(CallsTo(o, "control"))
      ELSE ble_sequence = o.seq_at_start

\* A command whose connect step failed four times, begun with the counter at 3.
C5_Witness ==
  \E t \in Tasks :
    /\ op[t].kind = "command" /\ Ended(op[t]) /\ op[t].seq_at_start = 3
    /\ ConnectAllFailed(op[t]) /\ Cardinality(CallsTo(op[t], "connect")) = 4

(***************************************************************************)
(* C6.  A refresh of an appliance issues relay calls (the candidate list,  *)
(* connect, poll, handshake frames, disconnect) only if the appliance has  *)
(* no recorded successful poll or at least 420 s have passed since the     *)
(* recorded one; otherwise it only fetches the data.  A refresh whose poll *)
(* succeeded records the time once the handshake is over, so no later      *)
(* refresh of that appliance issues a relay call within 420 s of it.       *)
(***************************************************************************)
RelayEndpoints == {"ble_devices", "connect", "poll", "control", "cancel"}

\* The step in which task t begins a refresh of appliance d.
RefreshBegins(t, d) ==
  /\ op[t].status # "running" /\ op'[t].status = "running"
  /\ op'[t].kind = "refresh" /\ op'[t].dev = d

\* Every relay call of a refresh follows the candidate list call it began with.
RelayCallsFollowListing ==
  \A t \in Tasks :
    LET o == op[t] IN
    (o.kind = "refresh" /\ \E i \in DOMAIN o.calls : o.calls[i].ep \in RelayEndpoints)
      => o.calls[1].ep = "ble_devices"

\* After a successful poll and the handshake, the poll time is on record.
PollTimeRecorded ==
  \A t \in Tasks :
    LET o == op[t] IN
    (o.kind = "refresh" /\ Truthy(o.poll_success)
       /\ o.pc \notin {"settle", "frame1", "frame2"})
      => o.dev \in DOMAIN last_ble_poll /\ last_ble_poll[o.dev] <= now

ListingOnlyAfterCooldown ==
  \A t \in Tasks, d \in Devices :
    RefreshBegins(t, d) =>
      IF op'[t].has_relay /\ (d \notin DOMAIN last_ble_poll
                                \/ now - last_ble_poll[d] >= 420)
      THEN op'[t].calls[1].ep = "ble_devices"
      ELSE op'[t].calls[1].ep = "w5" /\ op'[t].pc = "fetch"

C6_RelayCallsRateLimited ==
  /\ [](RelayCallsFollowListing /\ PollTimeRecorded)
  /\ [][ListingOnlyAfterCooldown]_vars

\* One fountain is refreshed by a plain fetch alone, 80 s after its recorded
\* poll, while the other fountain has no recorded poll.
C6_Witness ==
  \E t \in Tasks :
    LET o == op[t] IN
    /\ o.kind = "refresh" /\ o.has_relay /\ o.status = "returned"
    /\ Len(o.calls) = 1 /\ o.calls[1].ep = "w5"
    /\ o.dev \in DOMAIN last_ble_poll /\ now - last_ble_poll[o.dev] = 80
    /\ \E d \in Devices : d \notin DOMAIN last_ble_poll

(***************************************************************************)
(* C7.  The refresh of an appliance whose last successful poll was 500 s   *)
(* ago, the group reporting a relay.                                       *)
(***************************************************************************)
\* C7 as claimed: the refresh is blocked and only fetches the data.
C7_BlockedAfter500s ==
  [][\A t \in Tasks, d \in Devices :
       (RefreshBegins(t, d) /\ op'[t].has_relay /\ d \in DOMAIN last_ble_poll
          /\ now - last_ble_poll[d] = 500)
         => op'[t].calls[1].ep = "w5"]_vars

\* C7 as amended: with the cool-down at 420 s that refresh is not blocked: it
\* asks for the relay candidates.  A refresh is blocked, and only fetches the
\* data, when its last successful poll was less than 420 s ago (80 s ago).
C7_NotBlockedAfter500s ==
  [][\A t \in Tasks, d \in Devices :
       (RefreshBegins(t, d) /\ op'[t].has_relay /\ d \in DOMAIN last_ble_poll)
         => /\ now - last_ble_poll[d] = 500 => op'[t].calls[1].ep = "ble_devices"
            /\ now - last_ble_poll[d] = 80 => op'[t].calls[1].ep = "w5"]_vars

\* A refresh has just asked for the relay candidates 500 s after the last poll.
C7_Witness ==
  \E t \in Tasks :
    LET o == op[t] IN
    /\ o.kind = "refresh" /\ o.pc = "relays" /\ o.has_relay
    /\ o.dev \in DOMAIN last_ble_poll /\ now - last_ble_poll[o.dev] = 500

(***************************************************************************)
(* C8.  In a refresh whose poll succeeded: a BluetoothError raised by a    *)
(* handshake frame send does not reach the caller; whether or not the      *)
(* handshake succeeded the state is fetched again once the handshake is    *)
(* over; and once that fetch is answered a disconnect call is issued.      *)
(***************************************************************************)
LastOf(S) == CHOOSE i \in S : \A j \in S : j <= i

C8_HandshakeErrorSwallowed ==
  \A t \in Tasks :
    LET o == op[t]
        frames == CallsTo(o, "control")
        refetch == CallsTo(o, "w5") \ {o.device_details}
    IN (o.kind = "refresh" /\ Truthy(o.poll_success)) =>
         /\ ( /\ Ended(o)
              /\ \E i \in frames : o.calls[i].out = "BluetoothError"
              /\ \A i \in DOMAIN o.calls \ frames : o.calls[i].out = "returned" )
              => o.status = "returned"
         /\ o.pc \notin {"settle", "frame1", "frame2"} =>
              /\ frames # {} /\ refetch # {}
              /\ LastOf(refetch) > LastOf(frames)
         /\ (Ended(o) /\ refetch # {} /\ o.calls[LastOf(refetch)].out = "returned") =>
              \E i \in CallsTo(o, "cancel") : i > LastOf(refetch)

\* A refresh returned the re-fetched state although its second handshake
\* frame raised BluetoothError; the disconnect call was its last call.
C8_Witness ==
  \E t \in Tasks :
    LET o == op[t] IN
    /\ o.kind = "refresh" /\ o.status = "returned"
    /\ Cardinality(CallsTo(o, "control")) = 2
    /\ \E i \in CallsTo(o, "control") : o.calls[i].out = "BluetoothError"
    /\ o.calls[Len(o.calls)].ep = "cancel"
    /\ o.fountain_data = Len(o.calls) - 1

(***************************************************************************)
(* C9.  Disconnect calls of operations whose connect or poll step did not  *)
(* succeed.                                                                *)
(***************************************************************************)
\* C9 as claimed: an operation, refresh or command, whose connect step or
\* poll step never succeeded issues no disconnect call.
C9_NoDisconnectWithoutSuccess ==
  \A t \in Tasks :
    ~(Truthy(op[t].conn_success) /\ Truthy(op[t].poll_success))
      => CallsTo(op[t], "cancel") = {}

\* C9 as amended: no disconnect call is issued in an operation whose connect
\* step never succeeded, nor in a command whose poll step never succeeded; a
\* refresh whose connect step succeeded and whose poll step failed does issue
\* a disconnect call before it returns.
C9_DisconnectOnlyAfterConnect ==
  \A t \in Tasks :
    LET o == op[t] IN
    /\ CallsTo(o, "cancel") # {} =>
         /\ Truthy(o.conn_success)
         /\ o.kind = "command" => Truthy(o.poll_success)
    /\ (o.kind = "refresh" /\ o.poll_success = "None" /\ Ended(o)) =>
         CallsTo(o, "cancel") # {}

\* A refresh returned after four failed polls and a disconnect call.
C9_Witness ==
  \E t \in Tasks :
    LET o == op[t] IN
    /\ o.kind = "refresh" /\ o.status = "returned" /\ PollAllFailed(o)
    /\ Cardinality(CallsTo(o, "poll")) = 4
    /\ o.calls[Len(o.calls)].ep = "cancel"

(***************************************************************************)
(* C10.  When the relay candidate list answered for the group is empty, a  *)
(* refresh issues no connect, poll, control frame or disconnect call; it   *)
(* issues the plain data fetch and, once that is answered, returns the     *)
(* fetched state without raising.                                          *)
(***************************************************************************)
EmptyListAnswered(o) ==
  /\ o.kind = "refresh" /\ Len(o.calls) >= 1
  /\ o.calls[1].ep = "ble_devices" /\ o.calls[1].out = "returned"
  /\ o.relays = <<>>

C10_EmptyListFallsBack ==
  \A t \in Tasks :
    LET o == op[t] IN
    EmptyListAnswered(o) =>
      /\ \A ep \in {"connect", "poll", "control", "cancel"} : CallsTo(o, ep) = {}
      /\ Len(o.calls) = 2 /\ o.calls[2].ep = "w5"
      /\ (Ended(o) /\ o.calls[2].out = "returned") =>
           o.status = "returned" /\ o.fountain_data = 2

\* A refresh returned the fetched state after an empty candidate list.
C10_Witness ==
  \E t \in Tasks :
    EmptyListAnswered(op[t]) /\ op[t].status = "returned" /\ op[t].fountain_data = 2

(***************************************************************************)
(* C11.  A refresh whose candidate list call was answered goes on to the   *)
(* connect step if and only if some candidate of the list has pim == 1, at *)
(* whatever position: it then fetches the device details and, once they    *)
(* are answered, issues the first connect call.  When no candidate has     *)
(* pim == 1 it issues no connect, poll, control frame or disconnect call,  *)
(* issues the plain data fetch and, once that is answered, returns without *)
(* raising.                                                                *)
(***************************************************************************)
ListAnswered(o) ==
  /\ o.kind = "refresh" /\ Len(o.calls) >= 1
  /\ o.calls[1].ep = "ble_devices" /\ o.calls[1].out = "returned"

SomeCandidateOnline(relays) == \E i \in DOMAIN relays : relays[i] = 1

C11_ConnectIffCandidateOnline ==
  \A t \in Tasks :
    LET o == op[t] IN
    /\ (o.kind = "refresh" /\ CallsTo(o, "connect") # {}) =>
         ListAnswered(o) /\ SomeCandidateOnline(o.relays)
    /\ (ListAnswered(o) /\ SomeCandidateOnline(o.relays)) =>
         /\ Len(o.calls) >= 2 /\ o.calls[2].ep = "w5"
         /\ o.calls[2].out = "returned" =>
              Len(o.calls) >= 3 /\ o.calls[3].ep = "connect"
    /\ (ListAnswered(o) /\ ~SomeCandidateOnline(o.relays)) =>
         /\ \A ep \in {"connect", "poll", "control", "cancel"} : CallsTo(o, ep) = {}
         /\ Len(o.calls) = 2 /\ o.calls[2].ep = "w5"
         /\ (Ended(o) /\ o.calls[2].out = "returned") =>
              o.status = "returned" /\ o.fountain_data = 2

\* A refresh issued a connect call although the first candidate of its list is
\* offline: the second one is online.
C11_Witness ==
  \E t \in Tasks :
    LET o == op[t] IN
    /\ ListAnswered(o) /\ o.relays = <<0, 1>>
    /\ CallsTo(o, "connect") # {}

(***************************************************************************)
(* C12.  control_water_fountain called (a) with a light brightness command *)
(* for a fountain whose lampRingSwitch is not 1, (b) with PAUSE for a      *)
(* fountain whose powerStatus is 0, or (c) for a fountain whose group      *)
(* reports no relay, raises at once: it has issued no network call, and    *)
(* the step leaves ble_sequence, last_ble_poll and missing_relay_log_count *)
(* as they were.                                                           *)
(***************************************************************************)
CommandBegins(t) ==
  op[t].status # "running" /\ op'[t].kind = "command" /\ op'[t] # op[t]

PreconditionFails(o) ==
  \/ o.cmd \in W5_LIGHT_BRIGHTNESS /\ o.lampRingSwitch # 1
  \/ o.cmd = "PAUSE" /\ o.powerStatus = 0
  \/ ~o.has_relay

C12_PreconditionFailureIsImmediate ==
  [][\A t \in Tasks :
       (CommandBegins(t) /\ PreconditionFails(op'[t])) =>
         /\ op'[t].status = "raised" /\ op'[t].err = "PetKitError"
         /\ op'[t].calls = <<>>
         /\ ble_sequence' = ble_sequence
         /\ last_ble_poll' = last_ble_poll
         /\ missing_relay_log_count' = missing_relay_log_count]_vars

\* A light brightness command for a fountain with a relay and its light off
\* was refused while the counter stood at 3 and a poll time was on record.
C12_Witness ==
  \E t \in Tasks :
    LET o == op[t] IN
    /\ o.kind = "command" /\ o.cmd \in W5_LIGHT_BRIGHTNESS /\ o.lampRingSwitch # 1
    /\ o.has_relay /\ o.status = "raised" /\ o.calls = <<>>
    /\ ble_sequence = 3 /\ o.dev \in DOMAIN last_ble_poll

(***************************************************************************)
(* C13.  An operation is in a BLE session from its first connect call to   *)
(* its end.  At no time are two operations in a BLE session for the same   *)
(* appliance: a request made for the appliance while another is in flight  *)
(* issues no relay call until that one has completed.                      *)
(***************************************************************************)
InSession(o) == o.status = "running" /\ CallsTo(o, "connect") # {}

C13_OneSessionPerAppliance ==
  \A t1, t2 \in Tasks :
    (t1 # t2 /\ InSession(op[t1]) /\ InSession(op[t2])) => op[t1].dev # op[t2].dev

(***************************************************************************)
(* C14.  relay_reported holds, for each appliance, what the group reported *)
(* at its latest refresh.  A refresh at which the group reports no relay   *)
(* emits the 'no relay device' warning exactly when it is the first        *)
(* refresh of the appliance or the refresh before it reported a relay: the *)
(* warning comes with the first refresh of each run of refreshes without a *)
(* relay and with no later one of the run, and a refresh that reports a    *)
(* relay arms it again.  A refresh that reports a relay never emits it.    *)
(***************************************************************************)
C14_WarnedOncePerRun ==
  [][\A t \in Tasks, d \in Devices :
       RefreshBegins(t, d) =>
         ("no_relay" \in op'[t].warned <=>
            /\ ~op'[t].has_relay
            /\ (d \notin DOMAIN relay_reported \/ relay_reported[d]))]_vars

\* A refresh without a relay emitted no warning: the refresh before it, of
\* the same appliance, had emitted it; earlier still a relay session of the
\* appliance had recorded its poll time.
C14_Witness ==
  \E t \in Tasks :
    LET o == op[t] IN
    /\ o.kind = "refresh" /\ ~o.has_relay /\ o.warned = {}
    /\ o.dev \in DOMAIN last_ble_poll
    /\ missing_relay_log_count[o.dev] = 1

(***************************************************************************)
(* C15.  A command that returned issued its calls in the order connect,    *)
(* poll, one control frame, disconnect.  No command sends a control frame  *)
(* unless its connect step and its poll step succeeded, a connect response *)
(* with state == 1 and a poll response with result == 0 preceding the      *)
(* frame, and no command sends more than one control frame.                *)
(***************************************************************************)
CommandStepRank(ep) ==
  IF ep = "connect" THEN 1 ELSE IF ep = "poll" THEN 2
  ELSE IF ep = "control" THEN 3 ELSE 4

C15_CommandCallOrder ==
  \A t \in Tasks :
    LET o == op[t] IN
    o.kind = "command" =>
      /\ \A i, j \in DOMAIN o.calls :
           i < j => CommandStepRank(o.calls[i].ep) <= CommandStepRank(o.calls[j].ep)
      /\ \A i \in DOMAIN o.calls : o.calls[i].ep \in {"connect", "poll", "control", "cancel"}
      /\ Cardinality(CallsTo(o, "control")) <= 1
      /\ \A k \in CallsTo(o, "control") :
           /\ Truthy(o.conn_success) /\ Truthy(o.poll_success)
           /\ \E i \in 1..(k - 1) : ConnectOk(o.calls[i])
           /\ \E i \in 1..(k - 1) : PollOk(o.calls[i])
      /\ o.status = "returned" =>
           /\ Cardinality(CallsTo(o, "control")) = 1
           /\ Cardinality(CallsTo(o, "cancel")) = 1
           /\ CallsTo(o, "connect") # {} /\ CallsTo(o, "poll") # {}
           /\ o.calls[Len(o.calls)].ep = "cancel"

\* A command returned after the calls connect, poll, control, disconnect.
C15_Witness ==
  \E t \in Tasks :
    LET o == op[t] IN
    /\ o.kind = "command" /\ o.status = "returned"
    /\ [i \in DOMAIN o.calls |-> o.calls[i].ep] = <<"connect", "poll", "control", "cancel">>

(***************************************************************************)
(* C16.  In every state the tracker holds an end time for a litter box if  *)
(* and only if it holds the litter box as paused, and the LitterBox a      *)
(* refresh returned has manual_pause_end set if and only if its            *)
(* manually_paused is true.                                                *)
(***************************************************************************)
C16_PauseEndIffPaused ==
  /\ DOMAIN manually_paused = DOMAIN manual_pause_end
  /\ \A id \in DOMAIN manual_pause_end :
       manual_pause_end[id] # None <=> manually_paused[id]
  /\ (lb_op.kind = "refresh" /\ lb_op.status = "returned") =>
       (lb_op.manual_pause_end # None <=> lb_op.manually_paused)

\* A refresh returned a litter box as paused, with the end of its pause,
\* while the tracker holds the pause of the other litter box as cleared.
C16_Witness ==
  /\ lb_op.kind = "refresh" /\ lb_op.status = "returned"
  /\ lb_op.manually_paused /\ lb_op.manual_pause_end # None
  /\ \E id \in DOMAIN manually_paused :
       id # lb_op.id /\ ~manually_paused[id] /\ manual_pause_end[id] = None

(***************************************************************************)
(* C17.  A step that notes a pause at time t leaves the litter box paused  *)
(* with the end of the pause at t + 660.  The expiry check of a refresh,   *)
(* made when the tracker holds the litter box as paused until e, leaves    *)
(* the tracker as it is when it is made before e (at e - 1, that is        *)
(* t + 659) and clears both fields when it is made at e or later (at e, at *)
(* e + 1, that is t + 661).                                                *)
(***************************************************************************)
PauseNoted(id) ==
  /\ id \in DOMAIN manual_pause_end' /\ manual_pause_end'[id] # None
  /\ id \in DOMAIN manual_pause_end => manual_pause_end'[id] # manual_pause_end[id]

\* The step in which a refresh makes its expiry check and returns.
ExpiryChecked ==
  lb_op.kind = "refresh" /\ lb_op.pc = "statistic" /\ lb_op'.status = "returned"

\* The time a set end of pause holds.
TimeOf(pause_end) == CHOOSE time \in pause_end : TRUE

C17_PauseEndsAfter660s ==
  [][/\ \A id \in LitterIds :
          PauseNoted(id) =>
            manually_paused'[id] /\ manual_pause_end'[id] = {now + 660}
     /\ (/\ ExpiryChecked /\ lb_op.id \in DOMAIN manually_paused
         /\ manually_paused[lb_op.id] /\ manual_pause_end[lb_op.id] # None) =>
          LET id == lb_op.id
              e == TimeOf(manual_pause_end[id])
              kept == /\ manually_paused'[id] /\ manual_pause_end'[id] = {e}
                      /\ lb_op'.manually_paused /\ lb_op'.manual_pause_end = {e}
              cleared == /\ ~manually_paused'[id] /\ manual_pause_end'[id] = None
                         /\ ~lb_op'.manually_paused /\ lb_op'.manual_pause_end = None
          IN /\ now < e => kept
             /\ now >= e => cleared
             /\ now = e - 1 => kept
             /\ now = e + 1 => cleared]_vars

\* A pause noted at time 0 was cleared by the expiry check of a refresh that
\* returned at time 660.
C17_Witness ==
  /\ lb_op.kind = "refresh" /\ lb_op.status = "returned" /\ lb_op.ended = 660
  /\ lb_op.id \in DOMAIN lb_op.end_before
  /\ lb_op.end_before[lb_op.id] = {660} /\ lb_op.paused_before[lb_op.id]
  /\ ~manually_paused[lb_op.id] /\ manual_pause_end[lb_op.id] = None

(***************************************************************************)
(* C18.  When a command returned that was given for a litter box the       *)
(* tracker held as paused, and the command was RESUME_CLEAN itself or a    *)
(* START_CLEAN for which RESUME_CLEAN was sent, the tracker holds the      *)
(* litter box as not paused and holds no end of pause for it, whatever the *)
(* time left of the 660 s.                                                 *)
(***************************************************************************)
ResumeSent(o) == \E i \in DOMAIN o.calls : o.calls[i].cmd = "RESUME_CLEAN"

ResumedWhilePaused(o) ==
  /\ o.kind = "command" /\ o.status = "returned"
  /\ o.id \in DOMAIN o.paused_before /\ o.paused_before[o.id]
  /\ o.cmd = "RESUME_CLEAN" \/ (o.cmd = "START_CLEAN" /\ ResumeSent(o))

C18_ResumeClearsPause ==
  ResumedWhilePaused(lb_op) =>
    ~manually_paused[lb_op.id] /\ manual_pause_end[lb_op.id] = None

(***************************************************************************)
(* C19.  START_CLEAN for a t3 litter box: the first call sends START_CLEAN;*)
(* the second, made once the first is answered, reads the device record;   *)
(* a third call is made, and it sends RESUME_CLEAN, exactly when the       *)
(* record answered ends with a clean_over event whose result is 3 and      *)
(* whose startReason is one of 0..3.  The pause of the litter box is       *)
(* cleared once that third call has returned; until then, and when a call  *)
(* raises or no RESUME_CLEAN is sent, the tracker is as it was when the    *)
(* command began.                                                          *)
(***************************************************************************)
C19_StartThenResumeOnT3 ==
  LET o == lb_op
      n == Len(o.calls)
  IN (o.kind = "command" /\ o.type = "t3" /\ o.cmd = "START_CLEAN") =>
       /\ n \in 1..3
       /\ o.calls[1].ep = "control" /\ o.calls[1].cmd = "START_CLEAN"
       /\ n >= 2 => o.calls[1].out = "returned" /\ o.calls[2].ep = "device_record"
       /\ n = 3 => o.calls[3].ep = "control" /\ o.calls[3].cmd = "RESUME_CLEAN"
       /\ (n >= 2 /\ o.calls[2].out = "returned") =>
            (n = 3 <=> /\ o.record # <<>>
                       /\ o.record[Len(o.record)].enumEventType = "clean_over"
                       /\ o.record[Len(o.record)].result = 3
                       /\ o.record[Len(o.record)].startReason \in 0..3)
       /\ IF n = 3 /\ o.calls[3].out = "returned"
          THEN /\ o.id \in DOMAIN manually_paused
               /\ ~manually_paused[o.id] /\ manual_pause_end[o.id] = None
               /\ o.status = "returned"
          ELSE manually_paused = o.paused_before /\ manual_pause_end = o.end_before

\* START_CLEAN for the t3 litter box, given while the tracker held it as
\* paused, returned after RESUME_CLEAN was sent, and the pause is cleared.
C19_Witness ==
  /\ lb_op.kind = "command" /\ lb_op.type = "t3" /\ lb_op.cmd = "START_CLEAN"
  /\ lb_op.status = "returned" /\ Len(lb_op.calls) = 3
  /\ lb_op.id \in DOMAIN lb_op.paused_before /\ lb_op.paused_before[lb_op.id]
  /\ ~manually_paused[lb_op.id]

(***************************************************************************)
(* C20.  An operation whose disconnect call raised ends by returning: the  *)
(* refresh returns the state it fetched, the command whose frame was sent  *)
(* completes without an error.                                             *)
(***************************************************************************)
DisconnectRaised(o) == \E i \in CallsTo(o, "cancel") : o.calls[i].out \in NetErrors

C20_DisconnectFailureNotRaised ==
  \A t \in Tasks :
    (Ended(op[t]) /\ DisconnectRaised(op[t])) =>
      /\ op[t].status = "returned"
      /\ op[t].kind = "refresh" => op[t].fountain_data \in CallsTo(op[t], "w5")

(***************************************************************************)
(* C21.  A connect or poll call that raised (a timeout of the network      *)
(* call) counts as one failed attempt: the operation does not end by       *)
(* raising that exception unless the step had used its 4 attempts.         *)
(***************************************************************************)
StepCallRaised(o, ep) ==
  /\ o.calls # <<>>
  /\ o.calls[Len(o.calls)].ep = ep
  /\ o.calls[Len(o.calls)].out \in NetErrors

C21_TimeoutCountsAsFailedAttempt ==
  \A t \in Tasks :
    LET o == op[t] IN
    \A ep \in {"connect", "poll"} :
      (o.status = "raised" /\ StepCallRaised(o, ep)) =>
        Cardinality(CallsTo(o, ep)) = ConnectAttemptLimit

(***************************************************************************)
(* C22.  An operation that was cancelled after its connect step had        *)
(* succeeded (during the poll, a settle wait, a frame send or the          *)
(* re-fetch) issued a disconnect call before the cancellation left it.     *)
(***************************************************************************)
CancelledAfterConnect(o) ==
  /\ o.status = "raised" /\ o.err = "CancelledError"
  /\ \E i \in DOMAIN o.calls : ConnectOk(o.calls[i])

C22_DisconnectBeforeCancellation ==
  \A t \in Tasks :
    CancelledAfterConnect(op[t]) => CallsTo(op[t], "cancel") # {}

(***************************************************************************)
(* Vocabulary of the codec properties.                                     *)
(***************************************************************************)
\* A frame the client built for a command, respectively for a handshake step.
CommandFrameBuilt == codec.call = "control_water_fountain" /\ codec.returned
HandshakeFrameBuilt == codec.call = "initial_ble_commands" /\ codec.returned
SettingsFrameBuilt == CommandFrameBuilt /\ codec.frame_command \in W5_SETTINGS_COMMANDS

\* The 13 bytes of the current settings, the 2-byte fields high byte first.
CurrentSettings(d) ==
  << d.smartWorkingTime, d.smartSleepTime, d.lampRingSwitch, d.lampRingBrightness,
     d.lampRingLightUpTime \div 256, d.lampRingLightUpTime % 256,
     d.lampRingGoOutTime \div 256, d.lampRingGoOutTime % 256,
     d.noDisturbingSwitch,
     d.noDisturbingStartTime \div 256, d.noDisturbingStartTime % 256,
     d.noDisturbingEndTime \div 256, d.noDisturbingEndTime % 256 >>

\* The place of the field a settings command replaces, and its new value.
ReplacedField(command) ==
  IF command \in {"LIGHT_ON", "LIGHT_OFF"} THEN 3
  ELSE IF command \in {"LIGHT_LOW", "LIGHT_MEDIUM", "LIGHT_HIGH"} THEN 4
  ELSE 9

NewValue(command) ==
  IF command \in {"LIGHT_ON", "DO_NOT_DISTURB", "LIGHT_LOW"} THEN 1
  ELSE IF command = "LIGHT_MEDIUM" THEN 2
  ELSE IF command = "LIGHT_HIGH" THEN 3
  ELSE 0

\* The settings of the example: (10, 20, 1, 1, [5,0], [10,0], 0, [0,0], [0,0]).
ExampleSettings(d) ==
  CurrentSettings(d) = <<10, 20, 1, 1, 5, 0, 10, 0, 0, 0, 0, 0, 0>>

\* The payload of a frame: what lies between the length field and the terminator.
PayloadOf(frame) == SubSeq(frame, 9, Len(frame) - 1)

(***************************************************************************)
(* C23.  The payload of a settings command's frame is the 13 bytes of the  *)
(* current settings in their order, with exactly the one field of the      *)
(* command's class (light switch, brightness or do-not-disturb switch)     *)
(* replaced by the new value; brightness Medium on the example settings    *)
(* gives [10,20,1,2,5,0,10,0,0,0,0,0,0].                                   *)
(***************************************************************************)
C23_SettingsPayload ==
  SettingsFrameBuilt =>
    LET payload == codec.data_list
        command == codec.frame_command
    IN /\ Len(payload) = 13
       /\ PayloadOf(codec.byte_list) = payload
       /\ \A i \in 1..13 :
            payload[i] = IF i = ReplacedField(command) THEN NewValue(command)
                         ELSE CurrentSettings(codec.device)[i]
       /\ (command = "LIGHT_MEDIUM" /\ ExampleSettings(codec.device)) =>
            payload = <<10, 20, 1, 2, 5, 0, 10, 0, 0, 0, 0, 0, 0>>

\* Brightness Medium was built on the example settings.
C23_Witness ==
  /\ SettingsFrameBuilt /\ codec.frame_command = "LIGHT_MEDIUM"
  /\ ExampleSettings(codec.device)
  /\ codec.data_list = <<10, 20, 1, 2, 5, 0, 10, 0, 0, 0, 0, 0, 0>>

(***************************************************************************)
(* C24.  The frame of a settings command is, in order, the header          *)
(* -6, -4, -3, the opcode, the literal 1, the sequence value, the low and  *)
(* the high byte of the payload length, the payload, and the terminator    *)
(* -5; every byte sent lies in 0..255 and is congruent modulo 256 to the   *)
(* value it was built from (header 250, 252, 253, terminator 251, the      *)
(* sequence modulo 256).                                                   *)
(***************************************************************************)
Congruent(byte, value) == \E k \in -2..2 : byte = value + 256 * k

C24_SettingsFrameLayout ==
  SettingsFrameBuilt =>
    LET frame == codec.byte_list
        sent == codec.byte_array
        payload == codec.data_list
        n == Len(payload)
    IN /\ Len(frame) = 8 + n + 1
       /\ SubSeq(frame, 1, 3) = <<-6, -4, -3>>
       /\ frame[4] = -35
       /\ frame[5] = 1
       /\ frame[6] = codec.sequence
       /\ frame[7] = n % 256 /\ frame[8] = n \div 256
       /\ SubSeq(frame, 9, 8 + n) = payload
       /\ frame[Len(frame)] = -5
       /\ Len(sent) = Len(frame)
       /\ \A i \in DOMAIN sent : sent[i] \in 0..255 /\ Congruent(sent[i], frame[i])
       /\ SubSeq(sent, 1, 3) = <<250, 252, 253>>
       /\ sent[Len(sent)] = 251
       /\ sent[6] = codec.sequence % 256

\* A settings frame built while the counter was above one byte.
C24_Witness ==
  /\ SettingsFrameBuilt /\ codec.sequence = 257
  /\ codec.byte_list[6] = 257 /\ codec.byte_array[6] = 1
  /\ codec.byte_array[4] = 221

(***************************************************************************)
(* C25.  In every frame create_ble_data produces, of a fixed payload or of *)
(* a settings command, and in every frame create_ble_byte_list assembles,  *)
(* low + 256 * high of the two length bytes is the number of payload       *)
(* bytes between the length field and the terminator, for payloads of 256  *)
(* and more elements too.                                                  *)
(***************************************************************************)
FrameBuilt ==
  codec.returned /\ codec.call \in {"control_water_fountain", "initial_ble_commands",
                                    "create_ble_byte_list"}

C25_LengthBytesDecode ==
  FrameBuilt =>
    LET sent == codec.byte_array IN
    /\ Len(sent) >= 9
    /\ sent[7] + 256 * sent[8] = Len(PayloadOf(sent))
    /\ codec.call = "create_ble_byte_list" =>
         PayloadOf(codec.byte_list) = codec.data_list

\* A frame assembled around a payload of 300 elements: length bytes 44 and 1.
C25_Witness ==
  /\ FrameBuilt /\ codec.call = "create_ble_byte_list"
  /\ Len(codec.data_list) = 300
  /\ codec.byte_array[7] = 44 /\ codec.byte_array[8] = 1

(***************************************************************************)
(* C26.  The opcode of the frame is -41 (215 as sent) for the first        *)
(* handshake step, -40 (216) for the second, -36 (220) for each of the     *)
(* four mode transitions, -35 (221) for every settings command and -34     *)
(* (222) for the filter reset; the handshake and filter reset frames carry *)
(* no payload; and the command code sent with a frame is the decimal       *)
(* numeral of the frame's opcode byte as sent.                             *)
(***************************************************************************)
OpcodeOf(command) ==
  IF command = "FIRST_BLE_CMND" THEN -41
  ELSE IF command = "SECOND_BLE_CMND" THEN -40
  ELSE IF command \in {"NORMAL", "SMART", "NORMAL_TO_PAUSE", "SMART_TO_PAUSE"} THEN -36
  ELSE IF command = "RESET_FILTER" THEN -34
  ELSE -35

C26_OpcodeAndCommandCode ==
  (CommandFrameBuilt \/ HandshakeFrameBuilt) =>
    LET frame == codec.byte_list
        sent == codec.byte_array
    IN /\ frame[4] = OpcodeOf(codec.frame_command)
       /\ sent[4] = OpcodeOf(codec.frame_command) + 256
       /\ sent[4] \in 215..222
       /\ codec.frame_command \in {"FIRST_BLE_CMND", "SECOND_BLE_CMND", "RESET_FILTER"} =>
            PayloadOf(frame) = <<>> /\ frame[7] = 0 /\ frame[8] = 0
       /\ codec.cmd = ToString(sent[4])

\* The Pause command sent to a fountain in smart mode: the frame of the
\* transition Smart To Pause, with the command code 220.
C26_Witness ==
  /\ CommandFrameBuilt /\ codec.command = "PAUSE"
  /\ codec.frame_command = "SMART_TO_PAUSE"
  /\ codec.byte_array[4] = 220 /\ codec.cmd = "220"

(***************************************************************************)
(* C27.  For every 16-bit unsigned value v, short_to_byte_list(v) is the   *)
(* two bytes [(v >> 8) & 255, v & 255], high byte first, so that           *)
(* 256 * byte0 + byte1 = v.                                                *)
(***************************************************************************)
ShortConverted == codec.call = "short_to_byte_list" /\ codec.returned

C27_ShortIsBigEndian ==
  ShortConverted =>
    LET v == codec.input
        bytes == codec.byte_list
    IN /\ Len(bytes) = 2
       /\ bytes[1] = (v \div 256) % 256 /\ bytes[2] = v % 256
       /\ bytes[1] \in 0..255 /\ bytes[2] \in 0..255
       /\ 256 * bytes[1] + bytes[2] = v

\* 4660 = 18 * 256 + 52 was converted.
C27_Witness ==
  ShortConverted /\ codec.input = 4660 /\ codec.byte_list = <<18, 52>>

(***************************************************************************)
(* C28.  In every refresh whose poll step succeeded, whatever              *)
(* ble_sequence was when the refresh began, the first handshake frame      *)
(* carries the sequence value 1 and the second the value 2: the counter is *)
(* set to 1 before the first frame and grows by one with each frame sent.  *)
(***************************************************************************)
FirstOf(S) == CHOOSE i \in S : \A j \in S : i <= j

C28_HandshakeCarriesOneThenTwo ==
  \A t \in Tasks :
    LET o == op[t]
        frames == CallsTo(o, "control")
    IN (o.kind = "refresh" /\ Truthy(o.poll_success) /\ o.pc # "settle") =>
         /\ Cardinality(frames) \in {1, 2}
         /\ o.calls[FirstOf(frames)].seq = 1
         /\ Cardinality(frames) = 2 => o.calls[LastOf(frames)].seq = 2
         /\ o.pc = "frame1" => ble_sequence = 1
         /\ o.pc = "frame2" => ble_sequence = 2

\* A refresh that began with the counter at 3 (left by the refresh before it)
\* and sent both handshake frames.
C28_Witness ==
  \E t \in Tasks :
    /\ op[t].kind = "refresh" /\ op[t].seq_at_start = 3
    /\ Cardinality(CallsTo(op[t], "control")) = 2
    /\ op[t].calls[LastOf(CallsTo(op[t], "control"))].seq = 2

(***************************************************************************)
(* C29.  When a command and a refresh interleave at their suspension       *)
(* points, each frame still carries the sequence value its own session     *)
(* assigned: the second handshake frame of a refresh carries the value of  *)
(* the first plus one, and between a frame and the next of a session no    *)
(* other operation resets or advances the counter.                         *)
(***************************************************************************)
C29_FramesCarryOwnSequence ==
  \A t \in Tasks :
    LET o == op[t]
        frames == CallsTo(o, "control")
    IN /\ (o.kind = "refresh" /\ Cardinality(frames) = 2) =>
            o.calls[LastOf(frames)].seq = o.calls[FirstOf(frames)].seq + 1
       /\ (o.kind = "refresh" /\ o.status = "running" /\ o.pc = "frame1") =>
            ble_sequence = o.calls[FirstOf(frames)].seq

(***************************************************************************)
(* C30.  Within one operation at most one connect or poll call is in       *)
(* flight; attempt k+1 of a step is issued only after attempt k was        *)
(* answered with a failure and the wait that follows it has elapsed; and   *)
(* no poll call is issued before the connect step succeeded.               *)
(***************************************************************************)
InFlight(o) == {i \in DOMAIN o.calls : o.calls[i].out = "pending"}

\* The calls of the operation so far are one at a time and in order.
AttemptsInOrder(o) ==
  /\ Cardinality(InFlight(o)) <= 1
  /\ InFlight(o) \subseteq {Len(o.calls)}
  /\ \A i \in CallsTo(o, "connect") :
       (\E j \in CallsTo(o, "connect") : j < i) =>
          i - 1 \in CallsTo(o, "connect") /\ ConnectFailed(o.calls[i - 1])
  /\ \A i \in CallsTo(o, "poll") :
       /\ \E j \in CallsTo(o, "connect") : j < i /\ ConnectOk(o.calls[j])
       /\ Truthy(o.conn_success)
       /\ (\E j \in CallsTo(o, "poll") : j < i) =>
            i - 1 \in CallsTo(o, "poll") /\ PollFailed(o.calls[i - 1])

\* The step of task t issues a further attempt of the connect or poll step.
IssuesRetry(t) ==
  /\ Len(op'[t].calls) = Len(op[t].calls) + 1
  /\ op[t].calls # <<>>
  /\ op'[t].calls[Len(op'[t].calls)].ep \in {"connect", "poll"}
  /\ op'[t].calls[Len(op'[t].calls)].ep = op[t].calls[Len(op[t].calls)].ep

C30_OneAttemptAtATime ==
  [][\A t \in Tasks :
       /\ AttemptsInOrder(op'[t])
       /\ IssuesRetry(t) =>
            /\ op[t].pc \in {"connect_wait", "poll_wait"}
            /\ InFlight(op[t]) = {}]_vars

\* The third poll call of an operation is in flight, the two before it failed.
C30_Witness ==
  \E t \in Tasks :
    /\ Cardinality(CallsTo(op[t], "poll")) = 3
    /\ InFlight(op[t]) = {Len(op[t].calls)}
    /\ op[t].calls[Len(op[t].calls)].ep = "poll"

(***************************************************************************)
(* C31.  The LitterBox a refresh returns is never reported as manually     *)
(* paused at or after the end of its pause: a refresh whose expiry check   *)
(* is made at a time >= the end the tracker held returns                   *)
(* manually_paused = False and manual_pause_end = None, and whatever end   *)
(* a returned LitterBox carries lies after the time it was built.          *)
(***************************************************************************)
RefreshReturned == lb_op.kind = "refresh" /\ lb_op.status = "returned"

C31_RefreshNeverReportsExpiredPause ==
  RefreshReturned =>
    /\ lb_op.manually_paused =>
         lb_op.manual_pause_end # None /\ lb_op.ended < TimeOf(lb_op.manual_pause_end)
    /\ lb_op.manual_pause_end # None => lb_op.ended < TimeOf(lb_op.manual_pause_end)
    /\ (/\ lb_op.id \in DOMAIN lb_op.end_before
        /\ lb_op.end_before[lb_op.id] # None
        /\ lb_op.ended >= TimeOf(lb_op.end_before[lb_op.id])) =>
         ~lb_op.manually_paused /\ lb_op.manual_pause_end = None

\* A refresh made one second after the end of a pause returned the litter
\* box as not paused.
C31_Witness ==
  /\ RefreshReturned /\ lb_op.began = 661 /\ lb_op.ended = 661
  /\ lb_op.id \in DOMAIN lb_op.end_before
  /\ lb_op.end_before[lb_op.id] = {660} /\ lb_op.paused_before[lb_op.id]
  /\ ~lb_op.manually_paused /\ lb_op.manual_pause_end = None

(***************************************************************************)
(* C32.  The expiry of a pause is checked by a command too: once a command *)
(* other than PAUSE_CLEAN, given at or after the end of the pause the      *)
(* tracker held, has returned, the tracker holds the litter box as not     *)
(* paused and holds no end of pause for it.                                *)
(***************************************************************************)
CommandAfterPauseEnd(o) ==
  /\ o.kind = "command" /\ o.status = "returned" /\ o.cmd # "PAUSE_CLEAN"
  /\ o.id \in DOMAIN o.end_before /\ o.end_before[o.id] # None
  /\ o.began >= TimeOf(o.end_before[o.id])

C32_CommandChecksExpiry ==
  CommandAfterPauseEnd(lb_op) =>
    ~manually_paused[lb_op.id] /\ manual_pause_end[lb_op.id] = None

(***************************************************************************)
(* C33.  While the main relay stays offline over consecutive refreshes of  *)
(* an appliance, the 'main relay offline' warning is emitted at most once: *)
(* a refresh that follows one which warned, and finds the main relay       *)
(* offline again, does not warn.                                           *)
(***************************************************************************)
FoundMainOffline(o) ==
  /\ o.kind = "refresh" /\ ListAnswered(o)
  /\ o.relays # <<>> /\ ~SomeCandidateOnline(o.relays)

C33_MainOfflineWarnedOnce ==
  (/\ FoundMainOffline(op[Caller]) /\ "main_offline" \in op[Caller].warned
   /\ FoundMainOffline(op[Controller]) /\ op[Controller].dev = op[Caller].dev) =>
     "main_offline" \notin op[Controller].warned

(***************************************************************************)
(* C34.  last_ble_poll of an appliance is changed only by a refresh of     *)
(* that appliance whose poll step succeeded, which sets it to the time of  *)
(* the step that ends the handshake, whether the handshake frames were     *)
(* answered or raised; no other refresh and no command changes it, and an  *)
(* entry once set is never removed.                                        *)
(***************************************************************************)
PollTimeChanged(d) ==
  \/ d \in DOMAIN last_ble_poll /\ d \notin DOMAIN last_ble_poll'
  \/ d \notin DOMAIN last_ble_poll /\ d \in DOMAIN last_ble_poll'
  \/ d \in DOMAIN last_ble_poll /\ d \in DOMAIN last_ble_poll'
       /\ last_ble_poll'[d] # last_ble_poll[d]

\* The step of task t leaves the handshake of a refresh.
HandshakeEnds(t) ==
  /\ op[t].kind = "refresh" /\ op[t].status = "running"
  /\ op[t].pc \in {"frame1", "frame2"}
  /\ op'[t].pc \notin {"frame1", "frame2"}

C34_PollTimeSetOnlyBySuccessfulPoll ==
  [][/\ DOMAIN last_ble_poll \subseteq DOMAIN last_ble_poll'
     /\ \A d \in Devices :
          PollTimeChanged(d) =>
            \E t \in Tasks :
              /\ HandshakeEnds(t) /\ op[t].dev = d
              /\ Truthy(op[t].poll_success)
              /\ last_ble_poll'[d] = now
     /\ \A t \in Tasks :
          HandshakeEnds(t) =>
            /\ op[t].dev \in DOMAIN last_ble_poll'
            /\ last_ble_poll'[op[t].dev] = now]_vars

\* The first handshake frame of a refresh of the second fountain raised, at
\* a later time than the poll time held for the first fountain; the poll
\* time of the second fountain is that later time.
C34_Witness ==
  \E t \in Tasks :
    /\ op[t].kind = "refresh" /\ op[t].dev = 2 /\ FrameSendRaised(op[t])
    /\ Cardinality(CallsTo(op[t], "control")) = 1
    /\ DOMAIN last_ble_poll = {1, 2}
    /\ last_ble_poll[2] = now /\ last_ble_poll[1] < now

----
(***************************************************************************)
(* C35.  Every operation in which a connect call returned state == 1       *)
(* issues a disconnect call before it ends, whether it returns or raises:  *)
(* in particular a command whose poll step exhausts its 4 attempts, or     *)
(* whose control-frame send raises, does not end with the relay link left  *)
(* open.                                                                   *)
(***************************************************************************)
C35_ConnectedOperationDisconnects ==
  \A t \in Tasks :
    LET o == op[t] IN
    (Ended(o) /\ \E i \in DOMAIN o.calls : ConnectOk(o.calls[i])) =>
      CallsTo(o, "cancel") # {}

----
(***************************************************************************)
(* C36.  For both litter box types the pause tracker is changed by         *)
(* PAUSE_CLEAN, or by START_CLEAN turned into a resume, only if the        *)
(* command's network call returned successfully: a command given as        *)
(* PAUSE_CLEAN or START_CLEAN that ended because one of its calls raised   *)
(* leaves paused and pause_ends_at as they were when it began.             *)
(***************************************************************************)
C36_TrackerKeptWhenCallRaises ==
  (/\ lb_op.kind = "command" /\ lb_op.status = "raised"
   /\ lb_op.cmd \in {"PAUSE_CLEAN", "START_CLEAN"}
   /\ lb_op.calls # <<>>
   /\ lb_op.calls[Len(lb_op.calls)].cmd \in {"PAUSE_CLEAN", "RESUME_CLEAN"}
   /\ lb_op.calls[Len(lb_op.calls)].out \in NetErrors) =>
    /\ manually_paused = lb_op.paused_before
    /\ manual_pause_end = lb_op.end_before

----
(***************************************************************************)
(* C37.  Every refresh and every command terminates: provided each network *)
(* call eventually returns, an operation issues at most 4 connect calls    *)
(* and at most 4 poll calls, and an operation that is running eventually   *)
(* reaches its end, returned or raised, without repeating any step         *)
(* indefinitely.                                                           *)
(***************************************************************************)
C37_OperationsTerminate ==
  /\ [](\A t \in Tasks : /\ Cardinality(CallsTo(op[t], "connect")) <= ConnectAttemptLimit
                         /\ Cardinality(CallsTo(op[t], "poll")) <= PollAttemptLimit)
  /\ \A t \in Tasks : (op[t].status = "running") ~> Ended(op[t])

\* A refresh that came to its end along its longest route: the connect call
\* succeeded, four poll calls failed, and the disconnect call was answered.
C37_Witness ==
  \E t \in Tasks :
    /\ op[t].kind = "refresh" /\ op[t].status = "returned"
    /\ Cardinality(CallsTo(op[t], "connect")) = 1
    /\ Cardinality(CallsTo(op[t], "poll")) = PollAttemptLimit
    /\ \E i \in CallsTo(op[t], "cancel") : op[t].calls[i].out = "returned"

----
(***************************************************************************)
(* C38.  In a refresh whose poll step succeeded, the calls occur in the    *)
(* order relay list -> pre-connect details fetch -> connect -> poll ->     *)
(* handshake frame 1 -> handshake frame 2 -> state re-fetch -> disconnect: *)
(* at every moment the calls issued so far are a beginning of that order   *)
(* (a first frame that raised is not followed by the second), and a        *)
(* refresh that ended with none of its calls raising issued all of them.   *)
(* The state such a refresh returns is the one fetched after the           *)
(* handshake, never the pre-connect details; a refresh returns the         *)
(* pre-connect details only when its connect or poll step failed.          *)
(***************************************************************************)
Endpoints(o) == [i \in DOMAIN o.calls |-> o.calls[i].ep]

IsPrefix(s, t) == Len(s) <= Len(t) /\ \A i \in DOMAIN s : s[i] = t[i]

RefreshCallOrder ==
  <<"ble_devices", "w5", "connect", "poll", "control", "control", "w5", "cancel">>

\* The order when the first handshake frame raised.
RefreshCallOrderOneFrame ==
  <<"ble_devices", "w5", "connect", "poll", "control", "w5", "cancel">>

C38_RefreshCallOrder ==
  \A t \in Tasks :
    LET o == op[t] IN
    /\ (o.kind = "refresh" /\ Truthy(o.poll_success)) =>
         /\ \/ IsPrefix(Endpoints(o), RefreshCallOrder)
            \/ /\ IsPrefix(Endpoints(o), RefreshCallOrderOneFrame)
               /\ o.calls[FirstOf(CallsTo(o, "control"))].out \in NetErrors
         /\ (Ended(o) /\ NoCallRaised(o)) => Endpoints(o) = RefreshCallOrder
         /\ o.status = "returned" =>
              /\ o.fountain_data = LastOf(CallsTo(o, "w5"))
              /\ o.fountain_data # o.device_details
              /\ \A i \in CallsTo(o, "control") : i < o.fountain_data
              /\ o.calls[o.fountain_data].out = "returned"
    /\ (/\ o.kind = "refresh" /\ o.status = "returned"
        /\ o.device_details # 0 /\ o.fountain_data = o.device_details) =>
         \/ o.conn_success # "unset" /\ ~Truthy(o.conn_success)
         \/ o.poll_success # "unset" /\ ~Truthy(o.poll_success)

\* A refresh sent both handshake frames, the second of which raised
\* BluetoothError, and returned the state it fetched after them.
C38_Witness ==
  \E t \in Tasks :
    LET o == op[t] IN
    /\ o.kind = "refresh" /\ o.status = "returned" /\ Truthy(o.poll_success)
    /\ Endpoints(o) = RefreshCallOrder
    /\ o.calls[LastOf(CallsTo(o, "control"))].out = "BluetoothError"
    /\ o.device_details = 2 /\ o.fountain_data = 7

----
(***************************************************************************)
(* C39.  For a t4 litter box that reports a workState, START_CLEAN is sent *)
(* as RESUME_CLEAN exactly when workMode = 0 and workProcess = 20 (a       *)
(* paused manual clean); in every other work state the command raises an   *)
(* error, issues no network call and leaves the pause tracker unchanged.   *)
(***************************************************************************)
C39_StartCleanOnT4 ==
  [][\A lbx \in LitterBoxes :
       (/\ lbx.type = "t4" /\ lbx.has_workState
        /\ control_litter_box(lbx, "START_CLEAN")) =>
         IF lbx.workMode = 0 /\ lbx.workProcess = 20
         THEN /\ lb_op'.status = "running"
              /\ Len(lb_op'.calls) = 1
              /\ lb_op'.calls[1].ep = "control" /\ lb_op'.calls[1].cmd = "RESUME_CLEAN"
         ELSE /\ lb_op'.status = "raised" /\ lb_op'.err = "PetKitError"
              /\ lb_op'.calls = <<>>
              /\ UNCHANGED <<manually_paused, manual_pause_end>>]_vars

\* START_CLEAN was refused for a t4 litter box in operation while the tracker
\* held a pause, which it still holds.
C39_Witness ==
  /\ lb_op.kind = "command" /\ lb_op.type = "t4" /\ lb_op.cmd = "START_CLEAN"
  /\ lb_op.status = "raised" /\ lb_op.err = "PetKitError" /\ lb_op.calls = <<>>
  /\ lb_op.id \in DOMAIN manually_paused /\ manually_paused[lb_op.id] = TRUE
  /\ manual_pause_end[lb_op.id] # None
  /\ manually_paused = lb_op.paused_before /\ manual_pause_end = lb_op.end_before

====
